---- MODULE Spec2Model ----
(***************************************************************************)
(* A model of the ingestion-and-persistence core of factors-rs:            *)
(*   data/artemis.rs     ArtemisClient   (metrics batches under a gate)    *)
(*   data/coinbase.rs    CoinbaseClient  (windowed candles, retry, dedup,  *)
(*                                        per-symbol price tasks)          *)
(*   data/mappings.rs    ARTEMIS_TO_COINBASE                               *)
(*   logger/csv_logger.rs CsvLogger      (per-factor and per-run CSV files)*)
(* Each component has its own variables and its own specification; a      *)
(* specification leaves the other components' variables at their idle      *)
(* values.                                                                 *)
(***************************************************************************)
EXTENDS Integers, Sequences, FiniteSets, TLC

VARIABLES
    \* ---- ArtemisClient::fetch_metrics_parallel ----
    symbols,      \* the call's symbol list
    metrics,      \* the call's metric list
    mpc,          \* position of the caller: "start", "spawning", "joining", "done"
    batches,      \* symbols.chunks(5)
    tpc,          \* per batch task: "unspawned", "spawned", "waiting", "inflight", "done"
    tresult,      \* per batch task: its JoinHandle output once done
    tresp,        \* per batch task: the provider's answer to its request
    permits,      \* free permits of the client's semaphore
    waiters,      \* tasks queued on the semaphore, oldest first
    sent,         \* per batch task: the request bodies it has sent
    mres,         \* the call's return value, None while it runs
    \* ---- CoinbaseClient::get_candles ----
    start_date,   \* first day asked for (a day number)
    end_date,     \* last day asked for
    cpc,          \* "loop", "page", "backoff", "ratelimit", "convert", "done"
    current_start,
    current_end,
    attempts,     \* fetch_candles_page's attempts counter
    all_candles,  \* candles collected so far, in collection order
    windows,      \* per loop iteration: the window, its requests and sleeps
    cres,         \* get_candles's return value, None while it runs
    \* ---- CoinbaseClient::candles_to_dataframe on its own ----
    dcandles,     \* the candles handed to candles_to_dataframe
    dres,         \* its return value, None before the call
    \* ---- CoinbaseClient::get_price_volume_for_symbols ----
    psymbols,     \* the call's symbol list
    ppc,          \* position of the caller: "start", "joining", "done"
    ptpc,         \* per symbol task: "spawned", "done"
    ptres,        \* per symbol task: its JoinHandle output once done
    preqs,        \* per symbol task: requests it has sent to the exchange
    pres,         \* the call's return value, None while it runs
    \* ---- CsvLogger ----
    fs,           \* the files under logs_dir: path -> the file's CSV records
    calls,        \* the log_results calls made so far, in call order
    series,       \* the arguments of the save_time_series call, or None
    lop,          \* the last CsvLogger call made: its name and arguments
    lres,         \* what that call returned
    callers,      \* concurrent log_results callers: position and locals
    \* ---- data/mappings.rs ----
    table,        \* the Lazy cell of ARTEMIS_TO_COINBASE: None until first use
    mcall,        \* the last call on the table: its name and argument
    mret,         \* what that call returned
    \* ---- ArtemisClient::list_asset_symbols ----
    lsresp,       \* the provider's answer to GET /asset-symbols
    lsres,        \* the call's return value, None before the call
    \* ---- error::Error as IntoResponse ----
    err,          \* the error a handler returned, None while there is none
    reply         \* the response made from it, None before the conversion

metricsVars ==
    <<symbols, metrics, mpc, batches, tpc, tresult, tresp, permits, waiters, sent, mres>>

candleVars ==
    <<start_date, end_date, cpc, current_start, current_end, attempts, all_candles,
      windows, cres>>

dedupVars == <<dcandles, dres>>

priceVars == <<psymbols, ppc, ptpc, ptres, preqs, pres>>

loggerVars == <<fs, calls, series, lop, lres, callers>>

mappingVars == <<table, mcall, mret>>

symbolsVars == <<lsresp, lsres>>

responseVars == <<err, reply>>

vars == <<metricsVars, candleVars, dedupVars, priceVars, loggerVars, mappingVars,
          symbolsVars, responseVars>>

\* What an action of one component leaves alone.
notMetrics ==
    <<candleVars, dedupVars, priceVars, loggerVars, mappingVars, symbolsVars, responseVars>>
notCandles ==
    <<metricsVars, dedupVars, priceVars, loggerVars, mappingVars, symbolsVars, responseVars>>
notDedup ==
    <<metricsVars, candleVars, priceVars, loggerVars, mappingVars, symbolsVars, responseVars>>
notPrice ==
    <<metricsVars, candleVars, dedupVars, loggerVars, mappingVars, symbolsVars, responseVars>>
notLogger ==
    <<metricsVars, candleVars, dedupVars, priceVars, mappingVars, symbolsVars, responseVars>>
notMapping ==
    <<metricsVars, candleVars, dedupVars, priceVars, loggerVars, symbolsVars, responseVars>>
notSymbols ==
    <<metricsVars, candleVars, dedupVars, priceVars, loggerVars, mappingVars, responseVars>>
notResponse ==
    <<metricsVars, candleVars, dedupVars, priceVars, loggerVars, mappingVars, symbolsVars>>

None == [none |-> TRUE]

Min(a, b) == IF a <= b THEN a ELSE b

Range(s) == {s[i] : i \in 1..Len(s)}

RECURSIVE Flatten(_)
Flatten(ss) == IF ss = <<>> THEN <<>> ELSE Head(ss) \o Flatten(Tail(ss))

(***************************************************************************)
(* Bounds of the model.                                                    *)
(***************************************************************************)
MaxSymbols == 21      \* longest symbol list: 21 symbols make 5 batches
NumNames == 8         \* distinct symbol names; longer lists repeat names
MaxPoints == 1        \* data points per (asset, metric) in a batch response
FirstDay == 19000     \* the start date of every candle range (a day number)
MaxDays == 601        \* longest candle range, in days: 601 days make 3 windows
MaxCandles == 3       \* longest candle list handed to candles_to_dataframe
NumDates == 2         \* distinct candle dates in such a list
NumPrices == 2        \* distinct close prices in such a list
MaxPriceSymbols == 2  \* longest symbol list of a price/volume call
MaxShortList == 1     \* longest list when both fetchers run side by side
MaxCalls == 3         \* log_results calls in one run of the logger
MaxSeries == 2        \* longest sequence handed to save_time_series
NumCallers == 2       \* concurrent log_results callers

(***************************************************************************)
(* Program constants.                                                      *)
(***************************************************************************)
SemaphorePermits == 4     \* Semaphore::new(4)
BatchSize == 5            \* symbols.chunks(5)
max_candles_per_request == 300
rate_limit_delay_ms == 100
max_attempts == 3
backoff_base_ms == 100

(***************************************************************************)
(* Results: Ok(v) and Err(kind), kind one of the variants of error::Error. *)
(***************************************************************************)
Ok(v) == [ok |-> TRUE, val |-> v]
Err(kind) == [ok |-> FALSE, err |-> kind]
Panicked == [ok |-> FALSE, err |-> "JoinError"]

\* Option::Some; Option::None is None
Some(v) == Ok(v)

IsOk(r) == r # None /\ r.ok
IsErr(r, kind) == r # None /\ ~r.ok /\ r.err = kind

(***************************************************************************)
(* Tables (polars DataFrame): an ordered column set and rows.              *)
(***************************************************************************)
DataFrame(cols, rows) == [columns |-> cols, rows |-> rows]

MetricsColumns == <<"date", "asset", "metric", "value">>

\* acc.vstack_mut(&df).ok(): rows are appended when the schemas agree; an
\* error is discarded and acc is left as it was.
vstack_mut(acc, df) ==
    IF acc.columns = df.columns
    THEN DataFrame(acc.columns, acc.rows \o df.rows)
    ELSE acc

\* dfs.into_iter().reduce(|acc, df| vstack): None for an empty list
RECURSIVE reduce_vstack(_, _)
reduce_vstack(acc, dfs) ==
    IF dfs = <<>> THEN acc
    ELSE reduce_vstack(vstack_mut(acc, Head(dfs)), Tail(dfs))

(***************************************************************************)
(* Text.  A string is a sequence of one-character strings, so that         *)
(* formatting and parsing are computed character by character.             *)
(***************************************************************************)
Digits == <<"0", "1", "2", "3", "4", "5", "6", "7", "8", "9">>

IsDigit(c) == \E d \in 1..10 : Digits[d] = c

DigitVal(c) == (CHOOSE d \in 1..10 : Digits[d] = c) - 1

AllDigits(s) == \A i \in 1..Len(s) : IsDigit(s[i])

RECURSIVE DigitsVal(_)
DigitsVal(s) ==
    IF s = <<>> THEN 0
    ELSE DigitsVal(SubSeq(s, 1, Len(s) - 1)) * 10 + DigitVal(s[Len(s)])

RECURSIVE NatToString(_)
NatToString(n) ==
    IF n < 10 THEN <<Digits[n + 1]>>
    ELSE NatToString(n \div 10) \o <<Digits[(n % 10) + 1]>>

Pow10(k) == CASE k = 0 -> 1 [] k = 1 -> 10 [] k = 2 -> 100 [] k = 3 -> 1000
              [] k = 4 -> 10000 [] OTHER -> 100000

\* i64::to_string
I64ToString(n) == IF n < 0 THEN <<"-">> \o NatToString(-n) ELSE NatToString(n)

\* str::parse::<i64>: an optional sign, then one or more digits
ParseI64(s) ==
    LET signed == s # <<>> /\ s[1] \in {"+", "-"}
        body == IF signed THEN Tail(s) ELSE s
    IN  IF body = <<>> \/ ~AllDigits(body) THEN None
        ELSE IF signed /\ s[1] = "-" THEN Ok(-DigitsVal(body))
        ELSE Ok(DigitsVal(body))

\* str::parse::<usize>: an optional "+", then one or more digits
ParseUsize(s) ==
    LET body == IF s # <<>> /\ s[1] = "+" THEN Tail(s) ELSE s
    IN  IF body = <<>> \/ ~AllDigits(body) THEN None ELSE Ok(DigitsVal(body))

\* A finite f64 with a short decimal expansion: m / 10^e, with m not a
\* multiple of 10 unless e = 0 (so equal numbers are equal records).
RECURSIVE Normal(_, _)
Normal(m, e) ==
    IF e > 0 /\ m % 10 = 0 THEN Normal(m \div 10, e - 1) ELSE [m |-> m, e |-> e]

F64(m, e) == Normal(m, e)

Abs(n) == IF n < 0 THEN -n ELSE n

RECURSIVE Zeros(_)
Zeros(k) == IF k <= 0 THEN <<>> ELSE <<"0">> \o Zeros(k - 1)

\* f64::to_string (Display): the shortest decimal that reads back as the
\* same number, without exponent; no fraction part for a whole number.
F64ToString(v) ==
    LET a == Abs(v.m)
        whole == NatToString(a \div Pow10(v.e))
        frac == NatToString(a % Pow10(v.e))
        sign == IF v.m < 0 THEN <<"-">> ELSE <<>>
    IN  IF v.e = 0 THEN sign \o whole
        ELSE sign \o whole \o <<".">> \o Zeros(v.e - Len(frac)) \o frac

IndexOf(s, c) ==
    IF \E i \in 1..Len(s) : s[i] = c
    THEN CHOOSE i \in 1..Len(s) : s[i] = c /\ \A j \in 1..(i - 1) : s[j] # c
    ELSE 0

\* str::parse::<f64> on decimal text: an optional sign, digits with an
\* optional point (at least one digit in all); anything else is an error.
ParseF64(s) ==
    LET signed == s # <<>> /\ s[1] \in {"+", "-"}
        body == IF signed THEN Tail(s) ELSE s
        dot == IndexOf(body, ".")
        whole == IF dot = 0 THEN body ELSE SubSeq(body, 1, dot - 1)
        frac == IF dot = 0 THEN <<>> ELSE SubSeq(body, dot + 1, Len(body))
        mag == DigitsVal(whole) * Pow10(Len(frac)) + DigitsVal(frac)
    IN  IF whole \o frac = <<>> \/ ~AllDigits(whole) \/ ~AllDigits(frac) THEN None
        ELSE IF signed /\ s[1] = "-" THEN Ok(F64(-mag, Len(frac)))
        ELSE Ok(F64(mag, Len(frac)))

(***************************************************************************)
(* ArtemisClient                                                           *)
(***************************************************************************)
SymbolAt(i) == ((i - 1) % NumNames) + 1

SymbolLists == {[i \in 1..n |-> SymbolAt(i)] : n \in 0..MaxSymbols}

MetricLists == {<<>>, <<"mc">>}

\* symbols.chunks(5): consecutive slices of 5, the last one shorter
chunksOneLonger(s, k) ==
    [b \in 1..((Len(s) + k) \div (k + 1)) |->
        SubSeq(s, (b - 1) * (k + 1) + 1, Min(b * (k + 1), Len(s)))]

chunks(s, k) ==
    [b \in 1..((Len(s) + k - 1) \div k) |->
        SubSeq(s, (b - 1) * k + 1, Min(b * k, Len(s)))]

\* What the provider may answer to one batch request.
Responses ==
    {[kind |-> "transport"], [kind |-> "status"], [kind |-> "badbody"]}
    \cup {[kind |-> "body", pts |-> p, dateOk |-> TRUE] : p \in 0..MaxPoints}
    \cup {[kind |-> "body", pts |-> p, dateOk |-> FALSE] : p \in 1..MaxPoints}

\* The request body of fetch_batch.
RequestBody(batch, ms) ==
    [symbols |-> batch, metrics |-> ms, start_date |-> "start", end_date |-> "end"]

\* parse_response_to_dataframe: flatten asset -> metric -> points into long
\* records; no record is an error; the date column is parsed ("raise").
Records(batch, ms, pts) ==
    Flatten([a \in 1..Len(batch) |->
        Flatten([m \in 1..Len(ms) |->
            [p \in 1..pts |-> <<p, batch[a], ms[m], a>>]])])

parse_response_to_dataframe(batch, ms, resp) ==
    LET records == Records(batch, ms, resp.pts)
    IN  IF records = <<>> THEN Err("DataFetch")
        ELSE IF ~resp.dateOk THEN Err("Polars")
        ELSE Ok(DataFrame(MetricsColumns, records))

\* fetch_batch: the outcome of one request, from the provider's answer.
fetch_batch(batch, ms, resp) ==
    CASE resp.kind = "transport" -> Err("DataFetch")
      [] resp.kind = "status"    -> Err("DataFetch")
      [] resp.kind = "badbody"   -> Err("DataFetch")
      [] resp.kind = "body"      -> parse_response_to_dataframe(batch, ms, resp)

\* sem.acquire() completes at once when a permit is free and nobody queues.
CanAcquireUngated(p, q) == TRUE
CanAcquire(p, q) == p > 0 /\ q = <<>>

MetricsIdle ==
    /\ symbols = <<>>
    /\ metrics = <<>>
    /\ mpc = "idle"
    /\ batches = <<>>
    /\ tpc = <<>>
    /\ tresult = <<>>
    /\ tresp = <<>>
    /\ permits = SemaphorePermits
    /\ waiters = <<>>
    /\ sent = <<>>
    /\ mres = None

\* ArtemisClient::new, and a caller about to call fetch_metrics_parallel.
MetricsInit ==
    /\ symbols \in SymbolLists
    /\ metrics \in MetricLists
    /\ mpc = "start"
    /\ batches = <<>>
    /\ tpc = <<>>
    /\ tresult = <<>>
    /\ tresp = <<>>
    /\ permits = SemaphorePermits
    /\ waiters = <<>>
    /\ sent = <<>>
    /\ mres = None

\* fetch_metrics_parallel, up to the split into batches.
Validate ==
    /\ mpc = "start"
    /\ IF symbols = <<>> \/ metrics = <<>>
       THEN /\ mres' = Err("InvalidInput")
            /\ mpc' = "done"
            /\ UNCHANGED <<batches, tpc, tresult, tresp, sent>>
       ELSE /\ batches' = chunks(symbols, BatchSize)
            /\ tpc' = [b \in 1..Len(chunks(symbols, BatchSize)) |-> "unspawned"]
            /\ tresult' = [b \in 1..Len(chunks(symbols, BatchSize)) |-> None]
            /\ tresp' = [b \in 1..Len(chunks(symbols, BatchSize)) |-> None]
            /\ sent' = [b \in 1..Len(chunks(symbols, BatchSize)) |-> <<>>]
            /\ mpc' = "spawning"
            /\ UNCHANGED mres
    /\ UNCHANGED <<symbols, metrics, permits, waiters>>
    /\ UNCHANGED notMetrics

\* One iteration of "for batch in batches": tokio::spawn of the batch's task.
Spawn ==
    /\ mpc = "spawning"
    /\ LET b == CHOOSE i \in 1..Len(tpc) :
                    tpc[i] = "unspawned" /\ \A j \in 1..(i - 1) : tpc[j] # "unspawned"
       IN  /\ tpc' = [tpc EXCEPT ![b] = "spawned"]
           /\ mpc' = IF b = Len(tpc) THEN "joining" ELSE "spawning"
    /\ UNCHANGED <<symbols, metrics, batches, tresult, tresp, permits, waiters, sent, mres>>
    /\ UNCHANGED notMetrics

\* The task's first poll: sem.acquire().await, then fetch_batch up to send().
Acquire(b) ==
    /\ tpc[b] = "spawned"
    /\ IF CanAcquire(permits, waiters)
       THEN /\ permits' = permits - 1
            /\ tpc' = [tpc EXCEPT ![b] = "inflight"]
            /\ sent' = [sent EXCEPT ![b] = Append(@, RequestBody(batches[b], metrics))]
            /\ UNCHANGED waiters
       ELSE /\ waiters' = Append(waiters, b)
            /\ tpc' = [tpc EXCEPT ![b] = "waiting"]
            /\ UNCHANGED <<permits, sent>>
    /\ UNCHANGED <<symbols, metrics, mpc, batches, tresult, tresp, mres>>
    /\ UNCHANGED notMetrics

\* Finish with a semaphore that frees the permit and wakes no waiter.
FinishWakesNobody(b, out) ==
    /\ tresult' = [tresult EXCEPT ![b] = out]
    /\ tpc' = [tpc EXCEPT ![b] = "done"]
    /\ permits' = permits + 1
    /\ UNCHANGED <<waiters, sent>>
    /\ UNCHANGED <<symbols, metrics, mpc, batches, mres>>
    /\ UNCHANGED notMetrics

\* The task ends with output out; dropping _permit hands the permit to the
\* oldest waiter, which then sends its own request, or frees it.
Finish(b, out) ==
    /\ tresult' = [tresult EXCEPT ![b] = out]
    /\ IF waiters # <<>>
       THEN /\ tpc' = [tpc EXCEPT ![b] = "done", ![Head(waiters)] = "inflight"]
            /\ waiters' = Tail(waiters)
            /\ sent' = [sent EXCEPT ![Head(waiters)] =
                            Append(@, RequestBody(batches[Head(waiters)], metrics))]
            /\ UNCHANGED permits
       ELSE /\ tpc' = [tpc EXCEPT ![b] = "done"]
            /\ permits' = permits + 1
            /\ UNCHANGED <<waiters, sent>>
    /\ UNCHANGED <<symbols, metrics, mpc, batches, mres>>
    /\ UNCHANGED notMetrics

\* The request of batch b completes and fetch_batch returns.
CompleteWith(b, answers) ==
    /\ tpc[b] = "inflight"
    /\ \E resp \in answers :
          /\ tresp' = [tresp EXCEPT ![b] = resp]
          /\ Finish(b, fetch_batch(batches[b], metrics, resp))

Complete(b) == CompleteWith(b, Responses)

\* The task of batch b panics while it holds its permit.
PanicKeepsPermit(b) ==
    /\ tpc[b] = "inflight"
    /\ tresult' = [tresult EXCEPT ![b] = Panicked]
    /\ tpc' = [tpc EXCEPT ![b] = "done"]
    /\ UNCHANGED <<symbols, metrics, mpc, batches, tresp, permits, waiters, sent, mres>>
    /\ UNCHANGED notMetrics

Panic(b) ==
    /\ tpc[b] = "inflight"
    /\ UNCHANGED tresp
    /\ Finish(b, Panicked)

\* join_all(tasks).await has every output: collect, count failures, combine.
SuccessfulFramesAbortOnFailure(results) ==
    IF \E i \in 1..Len(results) : ~IsOk(results[i]) THEN <<>>
    ELSE [i \in 1..Len(results) |-> results[i].val]

SuccessfulFrames(results) ==
    LET idx == {i \in 1..Len(results) : IsOk(results[i])}
        RECURSIVE Pick(_)
        Pick(i) == IF i > Len(results) THEN <<>>
                   ELSE IF i \in idx THEN <<results[i].val>> \o Pick(i + 1)
                   ELSE Pick(i + 1)
    IN  Pick(1)

CombineEmptyIsOk(dfs) ==
    IF dfs = <<>> THEN Ok(DataFrame(MetricsColumns, <<>>))
    ELSE Ok(reduce_vstack(Head(dfs), Tail(dfs)))

Combine(dfs) ==
    IF dfs = <<>> THEN Err("DataFetch")
    ELSE Ok(reduce_vstack(Head(dfs), Tail(dfs)))

Collect ==
    /\ mpc = "joining"
    /\ \A b \in 1..Len(tpc) : tpc[b] = "done"
    /\ mres' = Combine(SuccessfulFrames(tresult))
    /\ mpc' = "done"
    /\ UNCHANGED <<symbols, metrics, batches, tpc, tresult, tresp, permits, waiters, sent>>
    /\ UNCHANGED notMetrics

MetricsNext ==
    \/ Validate
    \/ Spawn
    \/ \E b \in 1..Len(tpc) : Acquire(b)
    \/ \E b \in 1..Len(tpc) : Complete(b)
    \/ \E b \in 1..Len(tpc) : Panic(b)
    \/ Collect

\* The ways a sent request completes: a response, an error status, and a
\* transport error, which is how a timeout ends it.
Completions ==
    {[kind |-> "body", pts |-> 1, dateOk |-> TRUE], [kind |-> "status"],
     [kind |-> "transport"]}

\* The call with every sent request completing in one of these ways.
MetricsCompletingNext ==
    \/ Validate
    \/ Spawn
    \/ \E b \in 1..Len(tpc) : Acquire(b)
    \/ \E b \in 1..Len(tpc) : CompleteWith(b, Completions)
    \/ \E b \in 1..Len(tpc) : Panic(b)
    \/ Collect

(***************************************************************************)
(* CoinbaseClient                                                          *)
(***************************************************************************)
CandleColumns == <<"date", "price", "24h_volume">>

\* A candle as the provider sends it: string-typed start, close and volume.
Candle(start, close, volume) == [start |-> start, close |-> close, volume |-> volume]

\* The candle with start timestamp t and close price c.  Timestamps are the
\* provider's data; they are kept small here (a day's number stands for its
\* first second) so that timestamp * 1000 stays a small integer.
DayCandle(t, c) ==
    Candle(I64ToString(t), F64ToString(F64(c, 0)), F64ToString(F64(15, 1)))

\* 2_u64.pow(n)
RECURSIVE Pow2(_)
Pow2(n) == IF n = 0 THEN 1 ELSE 2 * Pow2(n - 1)

\* One parsed candle: Ok(row), or the error of the first field that fails.
ParseCandle(c) ==
    LET timestamp == ParseI64(c.start)
        price == ParseF64(c.close)
        volume == ParseF64(c.volume)
    IN  IF timestamp = None \/ price = None \/ volume = None THEN Err("DataFetch")
        ELSE Ok([date |-> timestamp.val * 1000, price |-> price.val,
                 volume |-> volume.val])

IsSortedByDate(rows) ==
    \A i \in 1..(Len(rows) - 1) : rows[i].date <= rows[i + 1].date

\* df.sort("date", SortOptions::default()): ascending by date; the default
\* options do not maintain the order of rows with equal dates, so every
\* arrangement that is ascending by date is a possible outcome.
SortOutcomes(rows) ==
    {r \in {[i \in 1..Len(rows) |-> rows[p[i]]] : p \in Permutations(1..Len(rows))} :
        IsSortedByDate(r)}

\* df.unique(["date"], UniqueKeepStrategy::First): of the rows of the sorted
\* frame with one date, the first is kept.
RECURSIVE unique_first(_)
unique_first(rows) ==
    IF rows = <<>> THEN <<>>
    ELSE LET init == SubSeq(rows, 1, Len(rows) - 1)
             last == rows[Len(rows)]
         IN  IF \E i \in 1..Len(init) : init[i].date = last.date
             THEN unique_first(init)
             ELSE Append(unique_first(init), last)

\* candles_to_dataframe: the possible return values for one candle list.
candles_to_dataframe(candles) ==
    LET parsed == [i \in 1..Len(candles) |-> ParseCandle(candles[i])]
    IN  IF \E i \in 1..Len(parsed) : ~parsed[i].ok
        THEN {Err("DataFetch")}
        ELSE {Ok(DataFrame(CandleColumns, unique_first(r))) :
                r \in SortOutcomes([i \in 1..Len(parsed) |-> parsed[i].val])}

\* What the provider may answer to one page request for window [ws, we]:
\* no answer, an error status, an unreadable body, or a list of candles
\* (none, the window's last and first day newest first, or one whose
\* volume is not a number).  A candle's close price tells the attempt.
PageResponses(ws, we, attempt) ==
    {[kind |-> "transport"], [kind |-> "status"], [kind |-> "badbody"],
     [kind |-> "body", candles |-> <<>>],
     [kind |-> "body", candles |->
        <<Candle(I64ToString(ws), F64ToString(F64(attempt, 0)), <<"x">>)>>],
     [kind |-> "body", candles |->
        IF we > ws THEN <<DayCandle(we, attempt), DayCandle(ws, attempt)>>
        ELSE <<DayCandle(ws, attempt)>>]}

CandlesIdle ==
    /\ start_date = 0
    /\ end_date = 0
    /\ cpc = "idle"
    /\ current_start = 0
    /\ current_end = 0
    /\ attempts = 0
    /\ all_candles = <<>>
    /\ windows = <<>>
    /\ cres = None

\* A caller about to call get_candles for one product.
CandlesInit ==
    /\ start_date = FirstDay
    /\ end_date \in (FirstDay - 1)..(FirstDay + MaxDays - 1)
    /\ cpc = "loop"
    /\ current_start = start_date
    /\ current_end = start_date
    /\ attempts = 0
    /\ all_candles = <<>>
    /\ windows = <<>>
    /\ cres = None

\* The window of one loop iteration.
WindowEndOffByOne(cs, e) == Min(cs + max_candles_per_request, e)
WindowEnd(cs, e) == Min(cs + (max_candles_per_request - 1), e)

\* "while current_start <= end_date": the next window, and the call of
\* fetch_candles_page for it, up to its first send().
LoopHead ==
    /\ cpc = "loop"
    /\ IF current_start <= end_date
       THEN /\ current_end' = WindowEnd(current_start, end_date)
            /\ attempts' = 0
            /\ windows' = Append(windows,
                   [start |-> current_start,
                    end |-> WindowEnd(current_start, end_date),
                    requests |-> 1, delays |-> <<>>, ok |-> FALSE, rested |-> 0])
            /\ cpc' = "page"
       ELSE /\ cpc' = "convert"
            /\ UNCHANGED <<current_end, attempts, windows>>
    /\ UNCHANGED <<start_date, end_date, current_start, all_candles, cres>>
    /\ UNCHANGED notCandles

\* PageOk with the loop's "current_start = current_end + 1" left out.
PageOkSameWindow ==
    /\ cpc = "page"
    /\ \E resp \in PageResponses(current_start, current_end, attempts + 1) :
          /\ resp.kind = "body"
          /\ all_candles' = all_candles \o resp.candles
    /\ windows' = [windows EXCEPT ![Len(windows)].ok = TRUE]
    /\ cpc' = "ratelimit"
    /\ UNCHANGED <<start_date, end_date, current_start, current_end, attempts, cres>>
    /\ UNCHANGED notCandles

\* The request of the current attempt succeeds with a readable body:
\* fetch_candles_page returns the candles, get_candles extends all_candles,
\* moves to the next window and starts the rate-limit sleep.
PageOk ==
    /\ cpc = "page"
    /\ \E resp \in PageResponses(current_start, current_end, attempts + 1) :
          /\ resp.kind = "body"
          /\ all_candles' = all_candles \o resp.candles
    /\ windows' = [windows EXCEPT ![Len(windows)].ok = TRUE]
    /\ current_start' = current_end + 1
    /\ cpc' = "ratelimit"
    /\ UNCHANGED <<start_date, end_date, current_end, attempts, cres>>
    /\ UNCHANGED notCandles

\* Whether a failed attempt is the last one.
LastAttempt(n) == n >= max_attempts - 1

\* The backoff delay after the attempts counter has been incremented to n.
BackoffDelayLinear(n) == backoff_base_ms * (n + 1)
BackoffDelay(n) == backoff_base_ms * Pow2(n)

\* The request of the current attempt fails (no answer, an error status or
\* an unreadable body): on the last attempt fetch_candles_page returns the
\* error and get_candles moves on; otherwise it sleeps the backoff delay.
PageFail ==
    /\ cpc = "page"
    /\ \E resp \in PageResponses(current_start, current_end, attempts + 1) :
          resp.kind # "body"
    /\ IF LastAttempt(attempts)
       THEN /\ current_start' = current_end + 1
            /\ cpc' = "ratelimit"
            /\ UNCHANGED <<attempts, windows>>
       ELSE /\ attempts' = attempts + 1
            /\ windows' = [windows EXCEPT ![Len(windows)].delays =
                              Append(@, BackoffDelay(attempts + 1))]
            /\ cpc' = "backoff"
            /\ UNCHANGED current_start
    /\ UNCHANGED <<start_date, end_date, current_end, all_candles, cres>>
    /\ UNCHANGED notCandles

\* The backoff sleep ends: the loop of fetch_candles_page sends again.
Retry ==
    /\ cpc = "backoff"
    /\ windows' = [windows EXCEPT ![Len(windows)].requests = @ + 1]
    /\ cpc' = "page"
    /\ UNCHANGED <<start_date, end_date, current_start, current_end, attempts,
                   all_candles, cres>>
    /\ UNCHANGED notCandles

\* The rate-limit sleep after a window ends.
RateLimitOnlyAfterSuccess ==
    /\ cpc = "ratelimit"
    /\ windows' = [windows EXCEPT ![Len(windows)].rested =
                      IF windows[Len(windows)].ok THEN rate_limit_delay_ms ELSE 0]
    /\ cpc' = "loop"
    /\ UNCHANGED <<start_date, end_date, current_start, current_end, attempts,
                   all_candles, cres>>
    /\ UNCHANGED notCandles

RateLimit ==
    /\ cpc = "ratelimit"
    /\ windows' = [windows EXCEPT ![Len(windows)].rested = rate_limit_delay_ms]
    /\ cpc' = "loop"
    /\ UNCHANGED <<start_date, end_date, current_start, current_end, attempts,
                   all_candles, cres>>
    /\ UNCHANGED notCandles

\* After the loop: the empty three-column frame, or candles_to_dataframe.
Convert ==
    /\ cpc = "convert"
    /\ IF all_candles = <<>>
       THEN cres' = Ok(DataFrame(CandleColumns, <<>>))
       ELSE cres' \in candles_to_dataframe(all_candles)
    /\ cpc' = "done"
    /\ UNCHANGED <<start_date, end_date, current_start, current_end, attempts,
                   all_candles, windows>>
    /\ UNCHANGED notCandles

CandlesNext ==
    \/ LoopHead
    \/ PageOk
    \/ PageFail
    \/ Retry
    \/ RateLimit
    \/ Convert

(***************************************************************************)
(* candles_to_dataframe applied to an arbitrary candle list                *)
(***************************************************************************)
\* Candle lists: days FirstDay.., close prices 1.., and one candle whose
\* close price is not a number.
DedupCandles ==
    {DayCandle(FirstDay + d, c) : d \in 0..(NumDates - 1), c \in 1..NumPrices}
    \cup {Candle(I64ToString(FirstDay), <<"x">>, <<"1">>)}

DedupIdle ==
    /\ dcandles = <<>>
    /\ dres = None

DedupInit ==
    /\ dcandles \in UNION {[1..n -> DedupCandles] : n \in 1..MaxCandles}
    /\ dres = None

ConvertCandles ==
    /\ dres = None
    /\ dres' \in candles_to_dataframe(dcandles)
    /\ UNCHANGED dcandles
    /\ UNCHANGED notDedup

DedupNext == ConvertCandles

(***************************************************************************)
(* data/mappings.rs: the translation table from Artemis symbol names to    *)
(* Coinbase product ids.                                                   *)
(***************************************************************************)
ARTEMIS_TO_COINBASE ==
    "bitcoin" :> "BTC-USD" @@ "ethereum" :> "ETH-USD" @@ "solana" :> "SOL-USD" @@
    "cardano" :> "ADA-USD" @@ "avalanche" :> "AVAX-USD" @@ "polkadot" :> "DOT-USD" @@
    "chainlink" :> "LINK-USD" @@ "polygon" :> "POL-USD" @@ "litecoin" :> "LTC-USD" @@
    "uniswap" :> "UNI-USD" @@ "stellar" :> "XLM-USD" @@ "cosmos" :> "ATOM-USD" @@
    "near" :> "NEAR-USD" @@ "algorand" :> "ALGO-USD" @@ "filecoin" :> "FIL-USD" @@
    "internet-computer" :> "ICP-USD" @@ "aptos" :> "APT-USD" @@ "arbitrum" :> "ARB-USD" @@
    "optimism" :> "OP-USD" @@ "sui" :> "SUI-USD" @@ "hedera" :> "HBAR-USD" @@
    "aave" :> "AAVE-USD" @@ "maker" :> "MKR-USD" @@ "render" :> "RENDER-USD" @@
    "injective" :> "INJ-USD" @@ "sei" :> "SEI-USD" @@ "celestia" :> "TIA-USD" @@
    "stacks" :> "STX-USD" @@ "the-graph" :> "GRT-USD" @@ "eos" :> "EOS-USD" @@
    "flow" :> "FLOW-USD" @@ "axie-infinity" :> "AXS-USD" @@ "decentraland" :> "MANA-USD" @@
    "the-sandbox" :> "SAND-USD" @@ "enjin-coin" :> "ENJ-USD" @@ "gala" :> "GALA-USD" @@
    "immutable-x" :> "IMX-USD" @@ "lido-dao" :> "LDO-USD" @@ "rocket-pool" :> "RPL-USD" @@
    "compound" :> "COMP-USD" @@ "sushi" :> "SUSHI-USD" @@ "1inch" :> "1INCH-USD" @@
    "curve-dao-token" :> "CRV-USD" @@ "yearn-finance" :> "YFI-USD" @@ "synthetix" :> "SNX-USD" @@
    "fetch-ai" :> "FET-USD" @@ "ocean-protocol" :> "OCEAN-USD" @@ "theta" :> "THETA-USD" @@
    "tezos" :> "XTZ-USD" @@ "iota" :> "IOTA-USD" @@ "zcash" :> "ZEC-USD" @@
    "dash" :> "DASH-USD" @@ "ethereum-classic" :> "ETC-USD" @@ "bitcoin-cash" :> "BCH-USD" @@
    "dogecoin" :> "DOGE-USD" @@ "shiba-inu" :> "SHIB-USD" @@ "pepe" :> "PEPE-USD" @@
    "bonk" :> "BONK-USD" @@ "floki" :> "FLOKI-USD" @@ "jasmy" :> "JASMY-USD" @@
    "chiliz" :> "CHZ-USD" @@ "mask-network" :> "MASK-USD" @@ "blur" :> "BLUR-USD" @@
    "worldcoin" :> "WLD-USD" @@ "jupiter" :> "JUP-USD" @@ "pyth-network" :> "PYTH-USD" @@
    "jito" :> "JTO-USD" @@ "dydx" :> "DYDX-USD" @@ "gmx" :> "GMX-USD" @@
    "raydium" :> "RAY-USD" @@ "ondo-finance" :> "ONDO-USD" @@ "ethena" :> "ENA-USD" @@
    "pendle" :> "PENDLE-USD" @@ "eigen-layer" :> "EIGEN-USD" @@ "zksync" :> "ZK-USD" @@
    "scroll" :> "SCR-USD" @@ "mantle" :> "MNT-USD" @@ "ton" :> "TON-USD" @@
    "tron" :> "TRX-USD" @@ "xrp" :> "XRP-USD"

\* ARTEMIS_TO_COINBASE.get(symbol)
mapping_get(symbol) ==
    IF symbol \in DOMAIN ARTEMIS_TO_COINBASE THEN Some(ARTEMIS_TO_COINBASE[symbol])
    ELSE None

(***************************************************************************)
(* CoinbaseClient::get_price_volume_for_symbols: one task per symbol, all  *)
(* spawned at once, each running get_candles for its product.              *)
(***************************************************************************)
\* The schema of the empty result, and of a product's frame once the asset
\* column has been added after the three candle columns.
PriceColumns == <<"date", "asset", "price", "24h_volume">>
AssetColumns == Append(CandleColumns, "asset")

PriceNames == {"bitcoin", "ethereum", "nonexistent-token"}

PriceSymbolLists == UNION {[1..n -> PriceNames] : n \in 0..MaxPriceSymbols}

\* The close price the exchange quotes for a product: it tells the products
\* of the symbol lists apart.
ExchangePrice(product_id) == IF product_id = "BTC-USD" THEN 1 ELSE 2

\* What the pagination of one get_candles(product_id, ..) call can amount
\* to, for a range of one window: the requests sent (1 to 3, the last one
\* answered or failed) and the candles collected (none, one candle of the
\* product, or one candle whose close price is not a number).
PriceFetches(product_id) ==
    {[requests |-> n, candles |-> c] :
        n \in 1..max_attempts,
        c \in {<<>>, <<DayCandle(FirstDay, ExchangePrice(product_id))>>,
               <<Candle(I64ToString(FirstDay), <<"x">>, <<"1">>)>>}}

\* get_candles after its loop: the empty frame or candles_to_dataframe.
get_candles_return(candles) ==
    IF candles = <<>> THEN {Ok(DataFrame(CandleColumns, <<>>))}
    ELSE candles_to_dataframe(candles)

\* df.lazy().with_column(lit(symbol).alias("asset"))
with_product_id(df, symbol) ==
    DataFrame(AssetColumns,
              [i \in 1..Len(df.rows) |->
                  [date |-> df.rows[i].date, price |-> df.rows[i].price,
                   volume |-> df.rows[i].volume, asset |-> ARTEMIS_TO_COINBASE[symbol]]])
with_asset(df, symbol) ==
    DataFrame(AssetColumns,
              [i \in 1..Len(df.rows) |->
                  [date |-> df.rows[i].date, price |-> df.rows[i].price,
                   volume |-> df.rows[i].volume, asset |-> symbol]])

\* The task's output for what get_candles returned.
task_output(symbol, r) ==
    IF IsOk(r)
    THEN IF Len(r.val.rows) = 0 THEN Ok(None)
         ELSE Ok(Some(with_asset(r.val, symbol)))
    ELSE Ok(None)

PriceIdle ==
    /\ psymbols = <<>>
    /\ ppc = "idle"
    /\ ptpc = <<>>
    /\ ptres = <<>>
    /\ preqs = <<>>
    /\ pres = None

\* A caller about to call get_price_volume_for_symbols.
PriceInit ==
    /\ psymbols \in PriceSymbolLists
    /\ ppc = "start"
    /\ ptpc = <<>>
    /\ ptres = <<>>
    /\ preqs = <<>>
    /\ pres = None

\* The argument check, then "for symbol in symbols": one task per symbol.
PriceValidateUnchecked ==
    /\ ppc = "start"
    /\ ptpc' = [i \in 1..Len(psymbols) |-> "spawned"]
    /\ ptres' = [i \in 1..Len(psymbols) |-> None]
    /\ preqs' = [i \in 1..Len(psymbols) |-> 0]
    /\ ppc' = "joining"
    /\ UNCHANGED <<psymbols, pres>>
    /\ UNCHANGED notPrice

PriceValidate ==
    /\ ppc = "start"
    /\ IF psymbols = <<>>
       THEN /\ pres' = Err("InvalidInput")
            /\ ppc' = "done"
            /\ UNCHANGED <<ptpc, ptres, preqs>>
       ELSE /\ ptpc' = [i \in 1..Len(psymbols) |-> "spawned"]
            /\ ptres' = [i \in 1..Len(psymbols) |-> None]
            /\ preqs' = [i \in 1..Len(psymbols) |-> 0]
            /\ ppc' = "joining"
            /\ UNCHANGED pres
    /\ UNCHANGED psymbols
    /\ UNCHANGED notPrice

\* The task of symbol i runs to its end: the table lookup and, for a mapped
\* symbol, get_candles and the asset column.
PriceTask(i) ==
    /\ ptpc[i] = "spawned"
    /\ IF mapping_get(psymbols[i]) = None
       THEN /\ ptres' = [ptres EXCEPT ![i] = Ok(None)]
            /\ UNCHANGED preqs
       ELSE \E f \in PriceFetches(mapping_get(psymbols[i]).val) :
               \E r \in get_candles_return(f.candles) :
                   /\ ptres' = [ptres EXCEPT ![i] = task_output(psymbols[i], r)]
                   /\ preqs' = [preqs EXCEPT ![i] = f.requests]
    /\ ptpc' = [ptpc EXCEPT ![i] = "done"]
    /\ UNCHANGED <<psymbols, ppc, pres>>
    /\ UNCHANGED notPrice

\* The task of a mapped symbol panics inside get_candles, after n requests.
PricePanic(i) ==
    /\ ptpc[i] = "spawned"
    /\ mapping_get(psymbols[i]) # None
    /\ \E n \in 0..max_attempts : preqs' = [preqs EXCEPT ![i] = n]
    /\ ptres' = [ptres EXCEPT ![i] = Panicked]
    /\ ptpc' = [ptpc EXCEPT ![i] = "done"]
    /\ UNCHANGED <<psymbols, ppc, pres>>
    /\ UNCHANGED notPrice

\* "for result in results": the frames of the Ok(Ok(Some(df))) outputs.
RECURSIVE SomeFramesUntilNone(_)
SomeFramesUntilNone(results) ==
    IF results = <<>> THEN <<>>
    ELSE IF IsOk(Head(results)) /\ Head(results).val # None
         THEN <<Head(results).val.val>> \o SomeFramesUntilNone(Tail(results))
         ELSE <<>>

RECURSIVE SomeFrames(_)
SomeFrames(results) ==
    IF results = <<>> THEN <<>>
    ELSE IF IsOk(Head(results)) /\ Head(results).val # None
         THEN <<Head(results).val.val>> \o SomeFrames(Tail(results))
         ELSE SomeFrames(Tail(results))

\* The empty frame with the expected schema, or the frames stacked.
PriceCombineEmptyIsError(dfs) ==
    IF dfs = <<>> THEN Err("DataFetch")
    ELSE Ok(reduce_vstack(Head(dfs), Tail(dfs)))

PriceCombine(dfs) ==
    IF dfs = <<>> THEN Ok(DataFrame(PriceColumns, <<>>))
    ELSE Ok(reduce_vstack(Head(dfs), Tail(dfs)))

\* join_all(tasks).await has every output: collect and combine.
PriceCollect ==
    /\ ppc = "joining"
    /\ \A i \in 1..Len(ptpc) : ptpc[i] = "done"
    /\ pres' = PriceCombine(SomeFrames(ptres))
    /\ ppc' = "done"
    /\ UNCHANGED <<psymbols, ptpc, ptres, preqs>>
    /\ UNCHANGED notPrice

PriceNext ==
    \/ PriceValidate
    \/ \E i \in 1..Len(ptpc) : PriceTask(i)
    \/ \E i \in 1..Len(ptpc) : PricePanic(i)
    \/ PriceCollect

(***************************************************************************)
(* get_price_volume_for_symbols with each task advancing request by        *)
(* request: the tasks are spawned together and the runtime polls whichever *)
(* can go on, so one task's request is in flight while another task runs.  *)
(***************************************************************************)
\* The task of an unmapped symbol returns Ok(None) without a request.
PriceNoMapping(i) ==
    /\ mapping_get(psymbols[i]) = None
    /\ PriceTask(i)

\* fetch_candles_page of task i sends a request for the task's product.
PriceSend(i) ==
    /\ ptpc[i] = "spawned"
    /\ mapping_get(psymbols[i]) # None
    /\ preqs[i] < max_attempts
    /\ ptpc' = [ptpc EXCEPT ![i] = "inflight"]
    /\ preqs' = [preqs EXCEPT ![i] = @ + 1]
    /\ UNCHANGED <<psymbols, ppc, ptres, pres>>
    /\ UNCHANGED notPrice

\* The request of task i fails before the last attempt: backoff, then the
\* loop sends again.
PriceRetry(i) ==
    /\ ptpc[i] = "inflight"
    /\ ~LastAttempt(preqs[i] - 1)
    /\ ptpc' = [ptpc EXCEPT ![i] = "spawned"]
    /\ UNCHANGED <<psymbols, ppc, ptres, preqs, pres>>
    /\ UNCHANGED notPrice

\* The request of task i is answered, or fails on the last attempt:
\* get_candles returns and the task ends with its output.
PriceReturn(i) ==
    /\ ptpc[i] = "inflight"
    /\ \E f \in PriceFetches(mapping_get(psymbols[i]).val) :
          /\ f.requests = preqs[i]
          /\ \E r \in get_candles_return(f.candles) :
                ptres' = [ptres EXCEPT ![i] = task_output(psymbols[i], r)]
    /\ ptpc' = [ptpc EXCEPT ![i] = "done"]
    /\ UNCHANGED <<psymbols, ppc, preqs, pres>>
    /\ UNCHANGED notPrice

PriceRequestsNext ==
    \/ PriceValidate
    \/ \E i \in 1..Len(ptpc) : PriceNoMapping(i)
    \/ \E i \in 1..Len(ptpc) : PriceSend(i)
    \/ \E i \in 1..Len(ptpc) : PriceRetry(i)
    \/ \E i \in 1..Len(ptpc) : PriceReturn(i)
    \/ PriceCollect

(***************************************************************************)
(* CsvLogger.  A file is the sequence of CSV records written to it; a      *)
(* record is a sequence of fields; a field is text.  The csv crate quotes  *)
(* on writing and unquotes on reading, so a field reads back as written.   *)
(***************************************************************************)
csv_ext == <<".", "c", "s", "v">>
returns_csv == <<"_", "r", "e", "t", "u", "r", "n", "s", ".", "c", "s", "v">>

\* logs_dir.join(format!("{}.csv", factor))
summary_path(factor) == factor \o csv_ext

\* logs_dir.join(format!("{}_{}_returns.csv", factor, run_id))
series_path(factor, run_id) == factor \o <<"_">> \o run_id \o returns_csv

SummaryHeader ==
    <<<<"r", "u", "n", "_", "i", "d">>,
      <<"f", "a", "c", "t", "o", "r">>,
      <<"b", "r", "e", "a", "k", "p", "o", "i", "n", "t">>,
      <<"m", "i", "n", "_", "a", "s", "s", "e", "t", "s">>,
      <<"w", "e", "i", "g", "h", "t", "i", "n", "g", "_", "m", "e", "t", "h", "o", "d">>,
      <<"c", "u", "m", "u", "l", "a", "t", "i", "v", "e", "_", "r", "e", "t", "u", "r", "n", "s">>,
      <<"a", "n", "n", "u", "a", "l", "i", "z", "e", "d", "_", "r", "e", "t", "u", "r", "n">>,
      <<"y", "e", "a", "r", "s">>,
      <<"s", "h", "a", "r", "p", "e", "_", "r", "a", "t", "i", "o">>,
      <<"s", "o", "r", "t", "i", "n", "o", "_", "r", "a", "t", "i", "o">>,
      <<"l", "o", "n", "g", "_", "o", "n", "l", "y", "_", "r", "e", "t", "u", "r", "n", "s">>,
      <<"s", "h", "o", "r", "t", "_", "o", "n", "l", "y", "_", "r", "e", "t", "u", "r", "n", "s">>,
      <<"s", "t", "a", "r", "t", "_", "d", "a", "t", "e">>,
      <<"e", "n", "d", "_", "d", "a", "t", "e">>>>

SeriesHeader ==
    <<<<"d", "a", "t", "e">>,
      <<"r", "e", "t", "u", "r", "n">>,
      <<"c", "u", "m", "u", "l", "a", "t", "i", "v", "e", "_", "r", "e", "t", "u", "r", "n">>>>

file_exists(files, path) == path \in DOMAIN files

\* OpenOptions::new().create(true).append(true).open(path)
open_append(files, path) ==
    IF file_exists(files, path) THEN files
    ELSE [q \in DOMAIN files \cup {path} |-> IF q = path THEN <<>> ELSE files[q]]

\* File::create(path): the file is created, or truncated if it exists
create_truncate(files, path) ==
    [q \in DOMAIN files \cup {path} |-> IF q = path THEN <<>> ELSE files[q]]

\* writer.flush() on a file opened for appending: the buffered records go to
\* the end of the file in one write.
append_records(files, path, records) ==
    [files EXCEPT ![path] = @ \o records]

\* v.map_or(String::new(), |v| v.to_string()) and v.unwrap_or("")
OptF64ToString(o) == IF o = None THEN <<>> ELSE F64ToString(o.val)
OptUsizeToString(o) == IF o = None THEN <<>> ELSE NatToString(o.val)
OptStr(o) == IF o = None THEN <<>> ELSE o.val

\* The data row of log_results.
data_row(factor, run_id, a) ==
    <<run_id, factor,
      OptF64ToString(a.breakpoint), OptUsizeToString(a.min_assets),
      OptStr(a.weighting_method),
      OptF64ToString(a.cumulative_returns), OptF64ToString(a.annualized_return),
      OptF64ToString(a.years), OptF64ToString(a.sharpe_ratio),
      OptF64ToString(a.sortino_ratio), OptF64ToString(a.long_only_returns),
      OptF64ToString(a.short_only_returns),
      OptStr(a.start_date), OptStr(a.end_date)>>

\* What log_results writes: the header if the file was new, then the row.
HeaderIfNew(existed) == IF existed THEN <<>> ELSE <<SummaryHeader>>

\* log_results, run from start to end with no other caller in between.
log_results(files, factor, run_id, a) ==
    LET path == summary_path(factor)
        existed == file_exists(files, path)
    IN  append_records(open_append(files, path), path,
                       HeaderIfNew(existed) \o <<data_row(factor, run_id, a)>>)

\* Reader::from_reader(file) with the default options: the first record is
\* the header, every record must have as many fields as the first one, and
\* deserialize() gives each later record as a map from header to field.
csv_ok(content) == \A i \in 1..Len(content) : Len(content[i]) = Len(content[1])

\* HashMap::get on a deserialized record: the field under the header name,
\* the last one if the header holds the name more than once.
Get(header, rec, name) ==
    LET at == {i \in 1..Len(header) : header[i] = name}
    IN  IF at = {} THEN None
        ELSE Some(rec[CHOOSE i \in at : \A j \in at : j <= i])

\* record.get(k).and_then(|s| s.parse().ok())
GetF64(header, rec, name) ==
    LET f == Get(header, rec, name) IN IF f = None THEN None ELSE ParseF64(f.val)

GetUsize(header, rec, name) ==
    LET f == Get(header, rec, name) IN IF f = None THEN None ELSE ParseUsize(f.val)

\* The FactorPerformance built from one record.
performance(header, rec, factor) ==
    [run_id |-> LET f == Get(header, rec, SummaryHeader[1])
                IN  IF f = None THEN <<>> ELSE f.val,
     factor |-> LET f == Get(header, rec, SummaryHeader[2])
                IN  IF f = None THEN factor ELSE f.val,
     breakpoint |-> GetF64(header, rec, SummaryHeader[3]),
     min_assets |-> GetUsize(header, rec, SummaryHeader[4]),
     weighting_method |-> Get(header, rec, SummaryHeader[5]),
     cumulative_returns |-> GetF64(header, rec, SummaryHeader[6]),
     annualized_return |-> GetF64(header, rec, SummaryHeader[7]),
     years |-> GetF64(header, rec, SummaryHeader[8]),
     sharpe_ratio |-> GetF64(header, rec, SummaryHeader[9]),
     sortino_ratio |-> GetF64(header, rec, SummaryHeader[10]),
     long_only_returns |-> GetF64(header, rec, SummaryHeader[11]),
     short_only_returns |-> GetF64(header, rec, SummaryHeader[12]),
     start_date |-> Get(header, rec, SummaryHeader[13]),
     end_date |-> Get(header, rec, SummaryHeader[14])]

\* load_factor_logs
MissingLogs == Ok(<<>>)

load_factor_logs(files, factor) ==
    LET path == summary_path(factor)
    IN  IF ~file_exists(files, path) THEN MissingLogs
        ELSE IF ~csv_ok(files[path]) THEN Err("Csv")
        ELSE Ok([k \in 1..(Len(files[path]) - 1) |->
                    performance(files[path][1], files[path][k + 1], factor)])

\* One row of save_time_series.
series_row_swapped(date, ret, cum) == <<date, F64ToString(cum), F64ToString(ret)>>
series_row(date, ret, cum) == <<date, F64ToString(ret), F64ToString(cum)>>

\* save_time_series: the file is created or truncated, the header and the
\* rows are written; returns[i] or cumulative_returns[i] out of range
\* panics, and the writer, dropped while unwinding, flushes what it holds.
save_time_series(files, factor, run_id, dates, returns, cums) ==
    LET path == series_path(factor, run_id)
        n == IF Len(returns) < Len(dates) \/ Len(cums) < Len(dates)
             THEN Min(Len(returns), Len(cums)) ELSE Len(dates)
        rows == [i \in 1..n |-> series_row(dates[i], returns[i], cums[i])]
    IN  [files |-> [create_truncate(files, path) EXCEPT ![path] = <<SeriesHeader>> \o rows],
         res |-> IF n < Len(dates) THEN Panicked ELSE Ok(<<>>)]

\* The rows of load_time_series: a record is kept when it has a date and
\* its return and cumulative return parse.
series_kept(header, content) ==
    {k \in 2..Len(content) :
        /\ Get(header, content[k], SeriesHeader[1]) # None
        /\ GetF64(header, content[k], SeriesHeader[2]) # None
        /\ GetF64(header, content[k], SeriesHeader[3]) # None}

RECURSIVE KeptInOrder(_, _)
KeptInOrder(kept, k) ==
    IF k < 2 THEN <<>>
    ELSE IF k \in kept THEN Append(KeptInOrder(kept, k - 1), k)
    ELSE KeptInOrder(kept, k - 1)

MissingSeriesIsEmpty == Ok(<<<<>>, <<>>, <<>>>>)
MissingSeries == Err("NotFound")

\* load_time_series
load_time_series(files, factor, run_id) ==
    LET path == series_path(factor, run_id)
    IN  IF ~file_exists(files, path) THEN MissingSeries
        ELSE IF ~csv_ok(files[path]) THEN Err("Csv")
        ELSE LET content == files[path]
                 header == content[1]
                 ks == KeptInOrder(series_kept(header, content), Len(content))
             IN  Ok(<<[i \in 1..Len(ks) |-> Get(header, content[ks[i]], SeriesHeader[1]).val],
                      [i \in 1..Len(ks) |-> GetF64(header, content[ks[i]], SeriesHeader[2]).val],
                      [i \in 1..Len(ks) |-> GetF64(header, content[ks[i]], SeriesHeader[3]).val]>>)

(***************************************************************************)
(* CsvLogger: calls made one after the other                               *)
(***************************************************************************)
EmptyFs == [q \in {} |-> <<>>]

NoCall == [op |-> "none", factor |-> <<>>, run_id |-> <<>>]

\* The optional arguments of log_results: all present, or all absent.
ArgsFull ==
    [breakpoint |-> Some(F64(3, 1)), min_assets |-> Some(30),
     weighting_method |-> Some(<<"e", "q", "u", "a", "l">>),
     cumulative_returns |-> Some(F64(5, 1)), annualized_return |-> Some(F64(15, 2)),
     years |-> Some(F64(25, 1)), sharpe_ratio |-> Some(F64(12, 1)),
     sortino_ratio |-> Some(F64(-13, 1)), long_only_returns |-> Some(F64(3, 1)),
     short_only_returns |-> Some(F64(2, 0)),
     start_date |-> Some(<<"2", "0", "2", "3", "-", "0", "1", "-", "0", "1">>),
     end_date |-> Some(<<"2", "0", "2", "3", "-", "1", "2", "-", "3", "1">>)]

ArgsBare ==
    [breakpoint |-> None, min_assets |-> None, weighting_method |-> None,
     cumulative_returns |-> None, annualized_return |-> None, years |-> None,
     sharpe_ratio |-> None, sortino_ratio |-> None, long_only_returns |-> None,
     short_only_returns |-> None, start_date |-> None, end_date |-> None]

ArgProfiles == {ArgsFull, ArgsBare}

\* Factor names and run ids.  The summary file of factor "a_b_returns" has
\* the path of the time-series file of ("a", "b").
LogFactors == {<<"a">>, <<"a", "_", "b", "_", "r", "e", "t", "u", "r", "n", "s">>}
LogRunIds == {<<"b">>, <<"c">>}

\* The time-series files of ("a", "b_c") and ("a_b", "c") have one path.
SeriesFactors == {<<"a">>, <<"a", "_", "b">>}
SeriesRunIds == {<<"c">>, <<"b", "_", "c">>}
SeriesDates == {<<"d", "1">>, <<"d", "2">>}
SeriesReturns == {F64(1, 2), F64(-15, 1)}
SeriesCums == {F64(302, 4), F64(2, 0)}

SeqsUpTo(S, n) == UNION {[1..k -> S] : k \in 0..n}

SeriesInputs ==
    [factor : SeriesFactors, run_id : SeriesRunIds,
     dates : SeqsUpTo(SeriesDates, MaxSeries),
     returns : SeqsUpTo(SeriesReturns, MaxSeries),
     cums : SeqsUpTo(SeriesCums, MaxSeries)]

\* A time-series file left by an earlier save for the same factor and run.
OldSeriesFs(in) ==
    save_time_series(EmptyFs, in.factor, in.run_id,
                     <<<<"d", "0">>>>, <<F64(7, 0)>>, <<F64(7, 0)>>).files

LoggerIdle ==
    /\ fs = EmptyFs
    /\ calls = <<>>
    /\ series = None
    /\ lop = NoCall
    /\ lres = None
    /\ callers = <<>>

\* CsvLogger::new on an empty logs_dir.
LogInit ==
    /\ fs = EmptyFs
    /\ calls = <<>>
    /\ series = None
    /\ lop = NoCall
    /\ lres = None
    /\ callers = <<>>

\* A caller about to save one series, with or without an older file.
SeriesInit ==
    /\ series \in SeriesInputs
    /\ fs \in {EmptyFs, OldSeriesFs(series)}
    /\ calls = <<>>
    /\ lop = NoCall
    /\ lres = None
    /\ callers = <<>>

\* log_results(factor, run_id, ...)
AppendRun(F, R) ==
    /\ Len(calls) < MaxCalls
    /\ \E f \in F, r \in R, a \in ArgProfiles :
          /\ fs' = log_results(fs, f, r, a)
          /\ calls' = Append(calls, [factor |-> f, run_id |-> r, args |-> a])
          /\ lop' = [op |-> "log_results", factor |-> f, run_id |-> r]
          /\ lres' = Ok(<<>>)
    /\ UNCHANGED <<series, callers>>
    /\ UNCHANGED notLogger

\* load_factor_logs(factor)
LoadRuns(F) ==
    /\ \E f \in F :
          /\ lres' = load_factor_logs(fs, f)
          /\ lop' = [op |-> "load_factor_logs", factor |-> f, run_id |-> <<>>]
    /\ UNCHANGED <<fs, calls, series, callers>>
    /\ UNCHANGED notLogger

\* save_time_series(factor, run_id, dates, returns, cumulative_returns)
SaveTimeSeries ==
    /\ series # None
    /\ LET out == save_time_series(fs, series.factor, series.run_id,
                                   series.dates, series.returns, series.cums)
       IN  /\ fs' = out.files
           /\ lres' = out.res
    /\ lop' = [op |-> "save_time_series", factor |-> series.factor,
               run_id |-> series.run_id]
    /\ UNCHANGED <<calls, series, callers>>
    /\ UNCHANGED notLogger

\* load_time_series(factor, run_id)
LoadTimeSeries(F, R) ==
    /\ \E f \in F, r \in R :
          /\ lres' = load_time_series(fs, f, r)
          /\ lop' = [op |-> "load_time_series", factor |-> f, run_id |-> r]
    /\ UNCHANGED <<fs, calls, series, callers>>
    /\ UNCHANGED notLogger

LogNext ==
    \/ AppendRun(LogFactors, LogRunIds)
    \/ LoadRuns(LogFactors)
    \/ LoadTimeSeries({<<"a">>}, LogRunIds)

SeriesNext ==
    \/ SaveTimeSeries
    \/ LoadTimeSeries(SeriesFactors, SeriesRunIds)

(***************************************************************************)
(* CsvLogger: log_results called by several callers at once, each call     *)
(* advancing by its file-system steps: exists(), open(), the flushed write *)
(***************************************************************************)
ConcFactor == <<"a">>

CallerRunId(c) == <<"r", Digits[c + 1]>>

\* A summary file written by an earlier, completed log_results call.
OldSummaryFs == log_results(EmptyFs, ConcFactor, <<"r", "0">>, ArgsFull)

ConcInit ==
    /\ fs \in {EmptyFs, OldSummaryFs}
    /\ calls = <<>>
    /\ series = None
    /\ lop = NoCall
    /\ lres = None
    /\ callers = [c \in 1..NumCallers |->
                    [pc |-> "exists", existed |-> FALSE, factor |-> ConcFactor,
                     run_id |-> CallerRunId(c), args |-> ArgsFull]]

\* let file_exists = file_path.exists();
CheckExists(c) ==
    /\ callers[c].pc = "exists"
    /\ callers' = [callers EXCEPT ![c].pc = "open",
                      ![c].existed = file_exists(fs, summary_path(callers[c].factor))]
    /\ UNCHANGED <<fs, calls, series, lop, lres>>
    /\ UNCHANGED notLogger

\* OpenOptions::new().create(true).append(true).open(&file_path)
OpenFile(c) ==
    /\ callers[c].pc = "open"
    /\ fs' = open_append(fs, summary_path(callers[c].factor))
    /\ callers' = [callers EXCEPT ![c].pc = "write"]
    /\ UNCHANGED <<calls, series, lop, lres>>
    /\ UNCHANGED notLogger

\* write_record (header if !file_exists), write_record (row), flush
WriteRow(c) ==
    /\ callers[c].pc = "write"
    /\ fs' = append_records(fs, summary_path(callers[c].factor),
                HeaderIfNew(callers[c].existed)
                \o <<data_row(callers[c].factor, callers[c].run_id, callers[c].args)>>)
    /\ callers' = [callers EXCEPT ![c].pc = "done"]
    /\ calls' = Append(calls, [factor |-> callers[c].factor,
                              run_id |-> callers[c].run_id, args |-> callers[c].args])
    /\ UNCHANGED <<series, lop, lres>>
    /\ UNCHANGED notLogger

ConcNext ==
    \/ \E c \in 1..NumCallers : CheckExists(c)
    \/ \E c \in 1..NumCallers : OpenFile(c)
    \/ \E c \in 1..NumCallers : WriteRow(c)
    \/ LoadRuns({ConcFactor})

(***************************************************************************)
(* CsvLogger: save_time_series advancing by its file-system steps while a  *)
(* reader calls load_time_series.  Writer::from_path creates or truncates  *)
(* the file; the records stay in the csv writer's buffer until the flush.  *)
(* The series saved here are short enough to fit in that buffer.           *)
(***************************************************************************)
SaveConcInit ==
    /\ series \in {in \in SeriesInputs :
                      Len(in.returns) = Len(in.dates) /\ Len(in.cums) = Len(in.dates)}
    /\ fs \in {EmptyFs, OldSeriesFs(series)}
    /\ calls = <<>>
    /\ lop = NoCall
    /\ lres = None
    /\ callers = <<[pc |-> "create", factor |-> series.factor, run_id |-> series.run_id]>>

\* let mut writer = Writer::from_path(file_path)?;
SaveCreate ==
    /\ callers[1].pc = "create"
    /\ fs' = create_truncate(fs, series_path(callers[1].factor, callers[1].run_id))
    /\ callers' = [callers EXCEPT ![1].pc = "flush"]
    /\ UNCHANGED <<calls, series, lop, lres>>
    /\ UNCHANGED notLogger

\* write_record (header), write_record (each row), writer.flush()
SaveFlush ==
    /\ callers[1].pc = "flush"
    /\ fs' = save_time_series(fs, series.factor, series.run_id,
                              series.dates, series.returns, series.cums).files
    /\ callers' = [callers EXCEPT ![1].pc = "done"]
    /\ UNCHANGED <<calls, series, lop, lres>>
    /\ UNCHANGED notLogger

SaveConcNext ==
    \/ SaveCreate
    \/ SaveFlush
    \/ LoadTimeSeries(SeriesFactors, SeriesRunIds)

(***************************************************************************)
(* api/factors.rs: the read-only queries over the logs, and the logs being *)
(* written by log_results and save_time_series in any interleaving.        *)
(***************************************************************************)
MaxApiCalls == 2      \* log_results calls made while the queries run

AVAILABLE_FACTORS ==
    <<<<"s", "m", "b">>, <<"m", "a", "r", "k", "e", "t">>, <<"v", "a", "l", "u", "e">>,
      <<"m", "o", "m", "e", "n", "t", "u", "m">>,
      <<"m", "o", "m", "e", "n", "t", "u", "m", "_", "v", "2">>,
      <<"g", "r", "o", "w", "t", "h">>>>

\* str::split(c): the pieces between the separators, empty ones included
RECURSIVE split(_, _)
split(s, c) ==
    IF IndexOf(s, c) = 0 THEN <<s>>
    ELSE <<SubSeq(s, 1, IndexOf(s, c) - 1)>> \o split(SubSeq(s, IndexOf(s, c) + 1, Len(s)), c)

\* str::trim
RECURSIVE trim(_)
trim(s) ==
    IF s # <<>> /\ s[1] = " " THEN trim(Tail(s))
    ELSE IF s # <<>> /\ s[Len(s)] = " " THEN trim(SubSeq(s, 1, Len(s) - 1))
    ELSE s

\* The order of the bytes that occur in dates here.
ByteOrder == <<"-">> \o Digits \o <<"_", "d">>

\* a < b for &str: byte by byte, a proper prefix first
RECURSIVE str_lt(_, _)
str_lt(a, b) ==
    IF b = <<>> THEN FALSE
    ELSE IF a = <<>> THEN TRUE
    ELSE IF a[1] = b[1] THEN str_lt(Tail(a), Tail(b))
    ELSE IndexOf(ByteOrder, a[1]) < IndexOf(ByteOrder, b[1])

\* let factors_list = if let Some(factors_str) = query.factors { ... }
factors_list(query) ==
    IF query.factors # None
    THEN SelectSeq([i \in 1..Len(split(query.factors.val, ",")) |->
                        trim(split(query.factors.val, ",")[i])],
                   LAMBDA piece : piece # <<>>)
    ELSE AVAILABLE_FACTORS

\* The series from the first date that is not before start_date on; the
\* whole series when every date is before it.
from_start(ts, start) ==
    LET indices == {i \in 1..Len(ts[1]) : ~str_lt(ts[1][i], start)}
        start_idx == CHOOSE i \in indices : \A j \in indices : i <= j
    IN  IF indices = {} THEN ts
        ELSE [c \in 1..3 |-> SubSeq(ts[c], start_idx, Len(ts[c]))]

\* The series up to the first date after end, that date not included.
until_end(ts, end) ==
    LET after == {i \in 1..Len(ts[1]) : str_lt(end, ts[1][i])}
        end_idx == CHOOSE i \in after : \A j \in after : i <= j
    IN  IF after = {} THEN ts
        ELSE [c \in 1..3 |-> SubSeq(ts[c], 1, end_idx - 1)]

\* (v + 1.0) * 100.0, exact on the values saved here
normalize(v) == F64((v.m + Pow10(v.e)) * 100, v.e)

\* The entry of one factor: the date filters, then the rescaling.
factor_returns(factor, loaded, query) ==
    LET a == IF query.start_date # None THEN from_start(loaded, query.start_date.val)
             ELSE loaded
        b == IF query.end_date # None THEN until_end(a, query.end_date.val) ELSE a
    IN  [factor |-> factor, dates |-> b[1], returns |-> b[2],
         cumulative_returns |->
            IF query.normalize_to_100 /\ b[3] # <<>>
            THEN [i \in 1..Len(b[3]) |-> normalize(b[3][i])]
            ELSE b[3]]

\* result.insert(factor, entry)
insert(map, key, value) ==
    [k \in DOMAIN map \cup {key} |-> IF k = key THEN value ELSE map[k]]

\* The loop of get_factors_time_series over factors_list.
RECURSIVE time_series_loop(_, _, _, _)
time_series_loop(files, query, list, result) ==
    IF list = <<>> THEN Ok(result)
    ELSE IF Head(list) \notin Range(AVAILABLE_FACTORS)
    THEN time_series_loop(files, query, Tail(list), result)
    ELSE LET logs == load_factor_logs(files, Head(list))
             loaded == load_time_series(files, Head(list), logs.val[Len(logs.val)].run_id)
         IN  IF ~logs.ok THEN logs
             ELSE IF logs.val = <<>> THEN time_series_loop(files, query, Tail(list), result)
             ELSE IF ~loaded.ok THEN time_series_loop(files, query, Tail(list), result)
             ELSE time_series_loop(files, query, Tail(list),
                    insert(result, Head(list),
                           factor_returns(Head(list), loaded.val, query)))

get_factors_time_series_or_fail(files, query) ==
    IF \E i \in 1..Len(factors_list(query)) :
          /\ factors_list(query)[i] \in Range(AVAILABLE_FACTORS)
          /\ IsOk(load_factor_logs(files, factors_list(query)[i]))
          /\ load_factor_logs(files, factors_list(query)[i]).val # <<>>
          /\ ~file_exists(files, series_path(factors_list(query)[i],
                 load_factor_logs(files, factors_list(query)[i]).val[
                     Len(load_factor_logs(files, factors_list(query)[i]).val)].run_id))
    THEN Err("NotFound")
    ELSE time_series_loop(files, query, factors_list(query), EmptyFs)
get_factors_time_series(files, query) ==
    time_series_loop(files, query, factors_list(query), EmptyFs)

\* logs.last() of get_factor_latest
first_log(logs) == logs[1]
last_log(logs) == logs[Len(logs)]

get_factor_latest(files, factor) ==
    LET logs == load_factor_logs(files, factor)
    IN  IF factor \notin Range(AVAILABLE_FACTORS) THEN Err("NotFound")
        ELSE IF ~logs.ok THEN logs
        ELSE IF logs.val = <<>> THEN Err("NotFound")
        ELSE Ok(last_log(logs.val))

\* fn default_limit() -> usize
default_limit == 10

MaxLimit == 3         \* largest limit asked for, the default aside

\* The limit of a "logs" query: absent (the default), or a number.
Limits == (0..MaxLimit) \cup {default_limit}

\* Vec::split_off(at): the elements from index at on
keep_first(v, at) == SubSeq(v, 1, Len(v) - at)
split_off(v, at) == SubSeq(v, at + 1, Len(v))

get_factor_logs(files, factor, limit) ==
    LET logs == load_factor_logs(files, factor)
    IN  IF factor \notin Range(AVAILABLE_FACTORS) THEN Err("NotFound")
        ELSE IF ~logs.ok THEN logs
        ELSE IF Len(logs.val) > limit THEN Ok(split_off(logs.val, Len(logs.val) - limit))
        ELSE logs

\* Factors logged and asked for: two available ones and one that is not.
ApiFactors ==
    {<<"m", "o", "m", "e", "n", "t", "u", "m">>,
     <<"m", "o", "m", "e", "n", "t", "u", "m", "_", "v", "2">>,
     <<"n", "o", "p", "e">>}

\* The series saved: two days.
ApiSeries ==
    {[dates |-> <<<<"d", "1">>, <<"d", "2">>>>,
      returns |-> <<F64(5, 1), F64(-15, 1)>>,
      cums |-> <<F64(5, 1), F64(2, 0)>>]}

ApiQueries ==
    {[factors |-> None, start_date |-> None, end_date |-> None,
      normalize_to_100 |-> TRUE],
     [factors |-> Some(<<"m", "o", "m", "e", "n", "t", "u", "m", ",", " ", "m", "o", "m", "e", "n", "t", "u", "m", "_", "v", "2">>),
      start_date |-> Some(<<"d", "2">>), end_date |-> None,
      normalize_to_100 |-> FALSE],
     [factors |-> Some(<<"m", "o", "m", "e", "n", "t", "u", "m", "_", "v", "2", ",", ",", "n", "o", "p", "e">>),
      start_date |-> None, end_date |-> Some(<<"d", "1">>),
      normalize_to_100 |-> TRUE],
     [factors |-> Some(<<"m", "o", "m", "e", "n", "t", "u", "m">>),
      start_date |-> Some(<<"d", "3">>), end_date |-> Some(<<"d", "0">>),
      normalize_to_100 |-> FALSE],
     [factors |-> Some(<<"m", "o", "m", "e", "n", "t", "u", "m", "_", "v", "2">>),
      start_date |-> Some(<<"d", "3">>), end_date |-> None,
      normalize_to_100 |-> FALSE]}

\* log_results called with every optional argument present.
LogRun(F, R) ==
    /\ Len(calls) < MaxApiCalls
    /\ AppendRun(F, R)
    /\ calls'[Len(calls')].args = ArgsFull

\* save_time_series(factor, run_id, ...) with one of the series of D
SaveRun(F, R, D) ==
    /\ \E f \in F, r \in R, d \in D :
          /\ fs' = save_time_series(fs, f, r, d.dates, d.returns, d.cums).files
          /\ lres' = save_time_series(fs, f, r, d.dates, d.returns, d.cums).res
          /\ lop' = [op |-> "save_time_series", factor |-> f, run_id |-> r]
    /\ UNCHANGED <<calls, series, callers>>
    /\ UNCHANGED notLogger

\* GET /factors/{factor}/latest
GetFactorLatest(F) ==
    /\ \E f \in F :
          /\ lres' = get_factor_latest(fs, f)
          /\ lop' = [op |-> "get_factor_latest", factor |-> f, run_id |-> <<>>]
    /\ UNCHANGED <<fs, calls, series, callers>>
    /\ UNCHANGED notLogger

\* GET /factors/time-series
GetFactorsTimeSeries ==
    /\ \E q \in ApiQueries :
          /\ lres' = get_factors_time_series(fs, q)
          /\ lop' = [op |-> "get_factors_time_series", factor |-> <<>>,
                     run_id |-> <<>>, query |-> q]
    /\ UNCHANGED <<fs, calls, series, callers>>
    /\ UNCHANGED notLogger

\* GET /factors/{factor}/logs?limit=..
GetFactorLogs(F) ==
    /\ \E f \in F, limit \in Limits :
          /\ lres' = get_factor_logs(fs, f, limit)
          /\ lop' = [op |-> "get_factor_logs", factor |-> f, run_id |-> <<>>,
                     limit |-> limit]
    /\ UNCHANGED <<fs, calls, series, callers>>
    /\ UNCHANGED notLogger

FactorLogsNext ==
    \/ LogRun(ApiFactors, LogRunIds)
    \/ GetFactorLogs(ApiFactors)

ApiNext ==
    \/ LogRun(ApiFactors, LogRunIds)
    \/ SaveRun(Range(AVAILABLE_FACTORS) \cap ApiFactors, {<<"b">>}, ApiSeries)
    \/ GetFactorLatest(ApiFactors)
    \/ GetFactorsTimeSeries

\* The logger's four operations on any of its factors and runs; the
\* time-series file of ("a", "b") has the path of the summary file of
\* factor "a_b_returns".
StoreNext ==
    \/ LogRun(LogFactors, LogRunIds)
    \/ SaveRun({<<"a">>}, LogRunIds, ApiSeries)
    \/ LoadRuns(LogFactors)
    \/ LoadTimeSeries({<<"a">>}, LogRunIds)

(***************************************************************************)
(* data/mappings.rs: the functions over the table.  ARTEMIS_TO_COINBASE is *)
(* a Lazy static: its initialiser runs at the first use, whichever caller  *)
(* makes it, and the map it built is the one every later use sees.         *)
(***************************************************************************)
\* Strings looked up: every key of the table, a product id, a key in
\* another case, the empty string and two names the table does not hold.
MappingStrings ==
    DOMAIN ARTEMIS_TO_COINBASE \cup {"nonexistent-token", "unknown", "BTC-USD", "Bitcoin", ""}

\* Lazy::deref: the cell's map, built by the initialiser if the cell is empty.
deref(cell) == IF cell = None THEN Some(ARTEMIS_TO_COINBASE) ELSE cell

\* HashMap::get
hash_get(m, key) == IF key \in DOMAIN m THEN Some(m[key]) ELSE None

\* HashMap::keys().  The iteration order of a HashMap is unspecified: the
\* keys come in some order, here one fixed enumeration started at any key.
RECURSIVE Enumerate(_)
Enumerate(S) ==
    IF S = {} THEN <<>>
    ELSE LET x == CHOOSE x \in S : TRUE IN <<x>> \o Enumerate(S \ {x})

SomeKeyOrder == Enumerate(DOMAIN ARTEMIS_TO_COINBASE)

KeyOrders(m) == 0..(Cardinality(DOMAIN m) - 1)

hash_keys(m, k) ==
    LET e == SelectSeq(SomeKeyOrder, LAMBDA key : key \in DOMAIN m)
    IN  [i \in 1..Len(e) |-> e[((i - 1 + k) % Len(e)) + 1]]

\* ARTEMIS_TO_COINBASE.get(artemis_symbol).copied()
artemis_to_coinbase(m, artemis_symbol) == hash_get(m, artemis_symbol)

\* ARTEMIS_TO_COINBASE.keys().copied().collect()
get_supported_symbols(m, k) == hash_keys(m, k)

\* ARTEMIS_TO_COINBASE.contains_key(artemis_symbol)
is_supported_or_product(m, artemis_symbol) ==
    artemis_symbol \in DOMAIN m \/ \E key \in DOMAIN m : m[key] = artemis_symbol
is_supported(m, artemis_symbol) == artemis_symbol \in DOMAIN m

NoMappingCall == [op |-> "none", arg |-> ""]

MappingIdle ==
    /\ table = None
    /\ mcall = NoMappingCall
    /\ mret = None

\* Program start: nothing has used the table yet.
MappingInit ==
    /\ table = None
    /\ mcall = NoMappingCall
    /\ mret = None

\* artemis_to_coinbase(s)
Lookup ==
    /\ \E s \in MappingStrings :
          /\ mret' = artemis_to_coinbase(deref(table).val, s)
          /\ mcall' = [op |-> "artemis_to_coinbase", arg |-> s]
    /\ table' = deref(table)
    /\ UNCHANGED notMapping

\* is_supported(s)
IsSupported ==
    /\ \E s \in MappingStrings :
          /\ mret' = is_supported(deref(table).val, s)
          /\ mcall' = [op |-> "is_supported", arg |-> s]
    /\ table' = deref(table)
    /\ UNCHANGED notMapping

\* get_supported_symbols()
ListSupported ==
    /\ \E k \in KeyOrders(deref(table).val) :
          mret' = get_supported_symbols(deref(table).val, k)
    /\ mcall' = [op |-> "get_supported_symbols", arg |-> ""]
    /\ table' = deref(table)
    /\ UNCHANGED notMapping

\* The lookup a price task makes for its symbol before it fetches:
\* ARTEMIS_TO_COINBASE.get(symbol.as_str())
FetchLookup ==
    /\ \E s \in MappingStrings :
          /\ mret' = hash_get(deref(table).val, s)
          /\ mcall' = [op |-> "get", arg |-> s]
    /\ table' = deref(table)
    /\ UNCHANGED notMapping

MappingNext ==
    \/ Lookup
    \/ IsSupported
    \/ ListSupported
    \/ FetchLookup

(***************************************************************************)
(* ArtemisClient::list_asset_symbols.  Symbols are text here, so that the  *)
(* substring test is computed character by character.                      *)
(***************************************************************************)
MaxAssets == 2        \* longest asset list in a provider answer

\* str::contains
contains(s, pat) ==
    \E i \in 0..(Len(s) - Len(pat)) : SubSeq(s, i + 1, i + Len(pat)) = pat

\* str::starts_with
starts_with(s, pat) == Len(s) >= Len(pat) /\ SubSeq(s, 1, Len(pat)) = pat

\* The symbol field of an asset record: absent, or a string.
AssetSymbols ==
    {None,
     Some(<<"b", "t", "c">>),
     Some(<<"e", "q", "-", "a", "a", "p", "l">>),
     Some(<<"x", "e", "q", "-", "y">>),
     Some(<<"e", "q">>),
     Some(<<"u", "s", "d">>),
     Some(<<"u", "s", "d", "c">>),
     Some(<<"M">>),
     Some(<<"m">>),
     Some(<<"e", "u", "r", "c">>),
     Some(<<>>)}

\* struct AssetSymbol { symbol: Option<String> }
AssetRecords == [symbol : AssetSymbols]

\* What the provider can answer: no answer, an error status, a body that is
\* no AssetListResponse, or a body with its asset records.
AssetListResponses ==
    {[kind |-> "transport"], [kind |-> "badbody"]}
    \cup [kind : {"status"}, status : {404, 500}]
    \cup [kind : {"body"}, assets : UNION {[1..n -> AssetRecords] : n \in 0..MaxAssets}]

\* .filter(|symbol| !symbol.contains("eq-") && symbol != "usd" && symbol != "M"
\*                  && symbol != "eurc")
crypto_symbol_by_prefix(symbol) ==
    /\ ~starts_with(symbol, <<"e", "q", "-">>)
    /\ symbol # <<"u", "s", "d">>
    /\ symbol # <<"M">>
    /\ symbol # <<"e", "u", "r", "c">>
crypto_symbol(symbol) ==
    /\ ~contains(symbol, <<"e", "q", "-">>)
    /\ symbol # <<"u", "s", "d">>
    /\ symbol # <<"M">>
    /\ symbol # <<"e", "u", "r", "c">>

\* .filter_map(|asset| asset.symbol)
RECURSIVE filter_map_symbol(_)
filter_map_symbol(assets) ==
    IF assets = <<>> THEN <<>>
    ELSE IF Head(assets).symbol = None THEN filter_map_symbol(Tail(assets))
    ELSE <<Head(assets).symbol.val>> \o filter_map_symbol(Tail(assets))

list_asset_symbols(response) ==
    IF response.kind = "transport" THEN Err("DataFetch")
    ELSE IF response.kind = "status" THEN Err("DataFetch")
    ELSE IF response.kind = "badbody" THEN Err("DataFetch")
    ELSE Ok(SelectSeq(filter_map_symbol(response.assets), crypto_symbol))

SymbolsIdle ==
    /\ lsresp = None
    /\ lsres = None

\* A call about to be made, and the answer the provider will give it.
SymbolsInit ==
    /\ lsresp \in AssetListResponses
    /\ lsres = None

ListSymbols ==
    /\ lsres = None
    /\ lsres' = list_asset_symbols(lsresp)
    /\ UNCHANGED lsresp
    /\ UNCHANGED notSymbols

SymbolsNext == ListSymbols

(***************************************************************************)
(* error::Error as an axum response                                        *)
(***************************************************************************)
\* An error value: its variant and the message it carries.
Error(kind, msg) == [kind |-> kind, msg |-> msg]

\* Errors the operations hand to a handler, one or two of every variant.
\* Provider failures and unreadable provider bodies are both DataFetch.
RaisedErrors ==
    {Error("InvalidInput", "No symbols provided"),
     Error("NotFound", "Factor 'x' not found"),
     Error("Config", "missing key"),
     Error("DataFetch", "Artemis API returned error: 500"),
     Error("DataFetch", "Failed to fetch candles for BTC-USD"),
     Error("DataFetch", "Failed to parse asset symbols"),
     Error("Csv", "record 2 has 3 fields"),
     Error("Io", "permission denied"),
     Error("Reqwest", "connection refused"),
     Error("Json", "expected value"),
     Error("Polars", "schema mismatch"),
     Error("DateParse", "Invalid start_date"),
     Error("FactorComputation", "no assets"),
     Error("Internal", "Failed to concatenate DataFrames")}

\* The error candles_to_dataframe makes for the first field that does not
\* parse: Error::DataFetch(format!("Invalid timestamp: {}", e)), and so on.
field_error(c) ==
    IF ParseI64(c.start) = None THEN Error("DataFetch", "Invalid timestamp")
    ELSE IF ParseF64(c.close) = None THEN Error("DataFetch", "Invalid price")
    ELSE Error("DataFetch", "Invalid volume")

first_field_error(candles) ==
    field_error(candles[CHOOSE i \in 1..Len(candles) :
                           /\ ~ParseCandle(candles[i]).ok
                           /\ \A j \in 1..(i - 1) : ParseCandle(candles[j]).ok])

\* impl IntoResponse for Error
into_response(e) ==
    LET pair ==
            CASE e.kind = "InvalidInput" -> <<400, e.msg>>
              [] e.kind = "NotFound" -> <<404, e.msg>>
              [] e.kind = "Config" -> <<500, e.msg>>
              [] e.kind = "DataFetch" -> <<502, e.msg>>
              [] e.kind = "FactorComputation" -> <<500, e.msg>>
              [] OTHER -> <<500, "Internal server error">>
    IN  [status |-> pair[1], body |-> [error |-> pair[2], status |-> pair[1]]]

ResponseIdle ==
    /\ err = None
    /\ reply = None

\* A handler at work on a candle list, no error yet.
ResponseInit ==
    /\ err = None
    /\ reply = None

\* candles_to_dataframe(candles)? in the handler: an Err is returned as it is.
ConvertOrFail ==
    /\ dres = None
    /\ err = None
    /\ dres' \in candles_to_dataframe(dcandles)
    /\ err' = IF dres'.ok THEN None ELSE first_field_error(dcandles)
    /\ UNCHANGED <<dcandles, reply>>
    /\ UNCHANGED <<metricsVars, candleVars, priceVars, loggerVars, mappingVars, symbolsVars>>

\* Any other operation of the handler fails.
Fail ==
    /\ err = None
    /\ err' \in RaisedErrors
    /\ UNCHANGED reply
    /\ UNCHANGED notResponse

\* axum turns the handler's Err(e) into the response.
IntoResponse ==
    /\ err # None
    /\ reply = None
    /\ reply' = into_response(err)
    /\ UNCHANGED err
    /\ UNCHANGED notResponse

ResponseNext ==
    \/ ConvertOrFail
    \/ Fail
    \/ IntoResponse

(***************************************************************************)
(* Specifications                                                          *)
(***************************************************************************)
InitMetrics ==
    /\ MetricsInit /\ CandlesIdle /\ DedupIdle /\ PriceIdle /\ LoggerIdle
    /\ MappingIdle /\ SymbolsIdle /\ ResponseIdle
SpecMetrics == InitMetrics /\ [][MetricsNext]_vars

\* The runtime keeps polling the spawned tasks and the caller, and a sent
\* request completes: a step that can be taken is taken.
SpecMetricsFair ==
    InitMetrics /\ [][MetricsCompletingNext]_vars /\ WF_vars(MetricsCompletingNext)

InitCandles ==
    /\ CandlesInit /\ MetricsIdle /\ DedupIdle /\ PriceIdle /\ LoggerIdle
    /\ MappingIdle /\ SymbolsIdle /\ ResponseIdle
SpecCandles == InitCandles /\ [][CandlesNext]_vars

\* The step that leaves the conversion after the loop.
ConvertReturns == cpc = "convert" /\ cpc' = "done"

\* get_candles is one future polled to its end: each of its steps is taken
\* once it can be, a sent request completing and a sleep ending being such
\* steps.
SpecCandlesFair ==
    /\ InitCandles /\ [][CandlesNext]_vars
    /\ WF_vars(LoopHead \/ PageOk \/ PageFail \/ Retry \/ RateLimit)
    /\ WF_cpc(ConvertReturns)

InitDedup ==
    /\ DedupInit /\ MetricsIdle /\ CandlesIdle /\ PriceIdle /\ LoggerIdle
    /\ MappingIdle /\ SymbolsIdle /\ ResponseIdle
SpecDedup == InitDedup /\ [][DedupNext]_vars

InitLog ==
    /\ LogInit /\ MetricsIdle /\ CandlesIdle /\ DedupIdle /\ PriceIdle
    /\ MappingIdle /\ SymbolsIdle /\ ResponseIdle
SpecLog == InitLog /\ [][LogNext]_vars

InitSeries ==
    /\ SeriesInit /\ MetricsIdle /\ CandlesIdle /\ DedupIdle /\ PriceIdle
    /\ MappingIdle /\ SymbolsIdle /\ ResponseIdle
SpecSeries == InitSeries /\ [][SeriesNext]_vars

InitConc ==
    /\ ConcInit /\ MetricsIdle /\ CandlesIdle /\ DedupIdle /\ PriceIdle
    /\ MappingIdle /\ SymbolsIdle /\ ResponseIdle
SpecConc == InitConc /\ [][ConcNext]_vars

InitPrice ==
    /\ PriceInit /\ MetricsIdle /\ CandlesIdle /\ DedupIdle /\ LoggerIdle
    /\ MappingIdle /\ SymbolsIdle /\ ResponseIdle
SpecPrice == InitPrice /\ [][PriceNext]_vars
SpecPriceRequests == InitPrice /\ [][PriceRequestsNext]_vars

\* Both fetchers, each called once with a short list.
InitFetchers ==
    /\ MetricsInit /\ Len(symbols) <= MaxShortList
    /\ PriceInit /\ Len(psymbols) <= MaxShortList
    /\ CandlesIdle /\ DedupIdle /\ LoggerIdle
    /\ MappingIdle /\ SymbolsIdle /\ ResponseIdle
FetchersNext == MetricsNext \/ PriceNext
SpecFetchers == InitFetchers /\ [][FetchersNext]_vars

InitMapping ==
    /\ MappingInit /\ MetricsIdle /\ CandlesIdle /\ DedupIdle /\ PriceIdle /\ LoggerIdle
    /\ SymbolsIdle /\ ResponseIdle
SpecMapping == InitMapping /\ [][MappingNext]_vars

InitSymbols ==
    /\ SymbolsInit /\ MetricsIdle /\ CandlesIdle /\ DedupIdle /\ PriceIdle /\ LoggerIdle
    /\ MappingIdle /\ ResponseIdle
SpecSymbols == InitSymbols /\ [][SymbolsNext]_vars

InitResponse ==
    /\ ResponseInit /\ DedupInit /\ MetricsIdle /\ CandlesIdle /\ PriceIdle /\ LoggerIdle
    /\ MappingIdle /\ SymbolsIdle
SpecResponse == InitResponse /\ [][ResponseNext]_vars

InitSaveConc ==
    /\ SaveConcInit /\ MetricsIdle /\ CandlesIdle /\ DedupIdle /\ PriceIdle
    /\ MappingIdle /\ SymbolsIdle /\ ResponseIdle
SpecSaveConc == InitSaveConc /\ [][SaveConcNext]_vars

InitApi ==
    /\ LogInit /\ MetricsIdle /\ CandlesIdle /\ DedupIdle /\ PriceIdle
    /\ MappingIdle /\ SymbolsIdle /\ ResponseIdle
SpecApi == InitApi /\ [][ApiNext]_vars

InitFactorLogs ==
    /\ LogInit /\ MetricsIdle /\ CandlesIdle /\ DedupIdle /\ PriceIdle
    /\ MappingIdle /\ SymbolsIdle /\ ResponseIdle
SpecFactorLogs == InitFactorLogs /\ [][FactorLogsNext]_vars

InitStore ==
    /\ LogInit /\ MetricsIdle /\ CandlesIdle /\ DedupIdle /\ PriceIdle
    /\ MappingIdle /\ SymbolsIdle /\ ResponseIdle
SpecStore == InitStore /\ [][StoreNext]_vars

(***************************************************************************)
(* Claims about ArtemisClient::fetch_metrics_parallel                      *)
(***************************************************************************)
InFlight == {b \in 1..Len(tpc) : tpc[b] = "inflight"}

Succeeded == {b \in 1..Len(tresult) : IsOk(tresult[b])}

CallRan == mpc = "done" /\ symbols # <<>> /\ metrics # <<>>

\* C1: at most 4 batch requests are sent and not yet completed, for any
\* number of batches; a task that has not got a permit has sent nothing,
\* and a task waits only while no permit is free.
C1_AtMostFourInFlight ==
    /\ Cardinality(InFlight) <= 4
    /\ \A b \in 1..Len(tpc) :
          tpc[b] \in {"unspawned", "spawned", "waiting"} => sent[b] = <<>>
    /\ waiters # <<>> => permits = 0 /\ Cardinality(InFlight) = 4

\* C1 witness: five batches, four requests in flight, the fifth task queued.
C1_Witness ==
    /\ Len(tpc) = 5
    /\ Cardinality(InFlight) = 4
    /\ \E b \in 1..Len(tpc) : tpc[b] = "waiting" /\ sent[b] = <<>>

\* The rows of the successful batches, batch after batch.
RECURSIVE RowsOfSucceeded(_)
RowsOfSucceeded(b) ==
    IF b > Len(tresult) THEN <<>>
    ELSE (IF IsOk(tresult[b]) THEN tresult[b].val.rows ELSE <<>>)
         \o RowsOfSucceeded(b + 1)

\* C4: a failed batch stops no sibling: when the call has returned, every
\* batch was dispatched (one request each) and awaited, and if at least one
\* batch succeeded the call succeeds with exactly the rows of the successful
\* batches.
C4_FailureDoesNotAbortSiblings ==
    CallRan =>
        /\ \A b \in 1..Len(tpc) : tpc[b] = "done" /\ Len(sent[b]) = 1
        /\ Succeeded # {} =>
              /\ IsOk(mres)
              /\ mres.val.rows = RowsOfSucceeded(1)
              /\ \A b \in Succeeded : \A i \in 1..Len(tresult[b].val.rows) :
                    tresult[b].val.rows[i] \in Range(mres.val.rows)

\* C4 witness: the call returned with one batch of each failure kind
\* (transport, status, body, panic) and at least one successful batch.
C4_Witness ==
    /\ CallRan
    /\ Succeeded # {}
    /\ \E b \in 1..Len(tresp) : tresp[b] # None /\ tresp[b].kind = "transport"
    /\ \E b \in 1..Len(tresp) : tresp[b] # None /\ tresp[b].kind = "status"
    /\ \E b \in 1..Len(tresp) : tresp[b] # None /\ tresp[b].kind = "badbody"
    /\ \E b \in 1..Len(tresult) : tresult[b] = Panicked
    /\ IsOk(mres)

\* C5: with non-empty symbols and metrics the call fails, with the provider
\* error, exactly when every batch failed, and succeeds otherwise; a batch
\* whose response flattens to zero records is a failed batch.
C5_FailsIffEveryBatchFailed ==
    /\ CallRan =>
          /\ IsErr(mres, "DataFetch") <=> Succeeded = {}
          /\ IsOk(mres) <=> Succeeded # {}
    /\ \A b \in 1..Len(tresp) :
          (tpc[b] = "done" /\ tresp[b] # None /\ tresp[b].kind = "body"
              /\ tresp[b].pts = 0)
          => IsErr(tresult[b], "DataFetch")

\* C5 witness: the call failed with every batch answered by a body that
\* flattens to zero records.
C5_Witness ==
    /\ CallRan
    /\ Len(tresp) >= 2
    /\ \A b \in 1..Len(tresp) :
          tresp[b] # None /\ tresp[b].kind = "body" /\ tresp[b].pts = 0
    /\ IsErr(mres, "DataFetch")

(***************************************************************************)
(* Claims about CoinbaseClient                                             *)
(***************************************************************************)
LoopEnded == cpc \in {"convert", "done"}

CeilDiv(a, b) == (a + b - 1) \div b

\* C6: for start <= end the loop requests ceil(days / 300) windows, days =
\* end - start + 1; each window covers 1 to 300 days, the first starts at
\* start, the last ends at end, and each starts the day after the previous
\* one's end.
C6_WindowsCoverRange ==
    /\ \A i \in 1..Len(windows) :
          /\ windows[i].start <= windows[i].end
          /\ windows[i].end - windows[i].start + 1 <= 300
          /\ windows[i].end <= end_date
          /\ i = 1 => windows[i].start = start_date
          /\ i > 1 => windows[i].start = windows[i - 1].end + 1
    /\ (LoopEnded /\ start_date <= end_date) =>
          /\ Len(windows) = CeilDiv(end_date - start_date + 1, 300)
          /\ windows[Len(windows)].end = end_date

\* C6 witness: a range of more than 600 days, fetched in three windows.
C6_Witness ==
    /\ LoopEnded
    /\ end_date - start_date + 1 > 600
    /\ Len(windows) = 3
    /\ windows[1].end - windows[1].start + 1 = 300

\* The candles collected with a start timestamp inside window w.
CandlesOf(w) ==
    {i \in 1..Len(all_candles) :
        LET t == ParseI64(all_candles[i].start)
        IN  t # None /\ w.start <= t.val /\ t.val <= w.end}

\* C7: a window whose first two attempts fail and whose third succeeds
\* yields the third attempt's candles after exactly 2 backoff delays, 200 ms
\* then 400 ms (base 100 ms doubled, then doubled again); in general a
\* success on attempt k comes after k - 1 delays, and no request follows it.
C7_RetryThenSuccess ==
    \A i \in 1..Len(windows) :
        LET w == windows[i]
        IN  /\ w.requests <= 3
            /\ w.ok =>
                  /\ Len(w.delays) = w.requests - 1
                  /\ \A j \in CandlesOf(w) :
                        ParseF64(all_candles[j].close) = Ok(F64(w.requests, 0))
            /\ (w.ok /\ w.requests = 3) =>
                  /\ w.delays = <<backoff_base_ms * 2, backoff_base_ms * 4>>
                  /\ w.delays[2] = 2 * w.delays[1]

\* C7 witness: a window that succeeded on its third attempt, with candles,
\* in a call that has returned.
C7_Witness ==
    /\ cpc = "done"
    /\ \E i \in 1..Len(windows) :
          /\ windows[i].ok
          /\ windows[i].requests = 3
          /\ CandlesOf(windows[i]) # {}

\* The rows of the candles handed to candles_to_dataframe, in that order.
InputRows == [i \in 1..Len(dcandles) |-> ParseCandle(dcandles[i]).val]

\* C8: the per-product table has exactly one row per distinct date, in
\* strictly ascending date order, and the row kept for a date is the first
\* one seen with that date in collection order.
C8_DedupKeepsFirstSeen ==
    IsOk(dres) =>
        LET rows == dres.val.rows
        IN  /\ {rows[i].date : i \in 1..Len(rows)}
                 = {InputRows[i].date : i \in 1..Len(InputRows)}
            /\ \A i \in 1..(Len(rows) - 1) : rows[i].date < rows[i + 1].date
            /\ \A i \in 1..Len(rows) :
                  LET first == CHOOSE k \in 1..Len(InputRows) :
                                  /\ InputRows[k].date = rows[i].date
                                  /\ \A j \in 1..(k - 1) : InputRows[j].date # rows[i].date
                  IN  rows[i] = InputRows[first]

(***************************************************************************)
(* Claims about CsvLogger                                                  *)
(***************************************************************************)
\* The record a log_results call asks to be stored.
RecordOf(call) ==
    [run_id |-> call.run_id, factor |-> call.factor,
     breakpoint |-> call.args.breakpoint, min_assets |-> call.args.min_assets,
     weighting_method |-> call.args.weighting_method,
     cumulative_returns |-> call.args.cumulative_returns,
     annualized_return |-> call.args.annualized_return,
     years |-> call.args.years, sharpe_ratio |-> call.args.sharpe_ratio,
     sortino_ratio |-> call.args.sortino_ratio,
     long_only_returns |-> call.args.long_only_returns,
     short_only_returns |-> call.args.short_only_returns,
     start_date |-> call.args.start_date, end_date |-> call.args.end_date]

\* The calls made for factor f, in call order.
RECURSIVE CallsOn(_, _)
CallsOn(cs, f) ==
    IF cs = <<>> THEN <<>>
    ELSE IF Head(cs).factor = f THEN <<Head(cs)>> \o CallsOn(Tail(cs), f)
    ELSE CallsOn(Tail(cs), f)

\* C2: after N sequential log_results calls on a factor that had no file,
\* load_factor_logs returns exactly N records, in call order, the k-th one
\* carrying the k-th call's run id and values; the header row is no record.
C2_AppendThenLoad ==
    \A f \in LogFactors :
        load_factor_logs(fs, f) =
            Ok([k \in 1..Len(CallsOn(calls, f)) |-> RecordOf(CallsOn(calls, f)[k])])

\* C3: when several callers run log_results on one factor concurrently, then
\* once all have returned each call's row is in the file whole, and
\* load_factor_logs returns every appended record intact.
C3_ConcurrentAppendsIntact ==
    (callers # <<>> /\ \A c \in 1..Len(callers) : callers[c].pc = "done") =>
        LET content == fs[summary_path(ConcFactor)]
            loaded == load_factor_logs(fs, ConcFactor)
        IN  /\ \A c \in 1..Len(callers) :
                  \E i \in 1..Len(content) :
                      content[i] = data_row(callers[c].factor, callers[c].run_id,
                                            callers[c].args)
            /\ IsOk(loaded)
            /\ \A c \in 1..Len(callers) :
                  \E k \in 1..Len(loaded.val) : loaded.val[k] = RecordOf(callers[c])

EqualLengths(in) == Len(in.returns) = Len(in.dates) /\ Len(in.cums) = Len(in.dates)

\* C9: save_time_series(f, r, dates, returns, cums) with three sequences of
\* one length, followed by load_time_series(f, r), returns the same three
\* sequences, element for element and in the same order.
C9_SaveLoadRoundTrip ==
    [][(/\ lop.op = "save_time_series"
        /\ lop'.op = "load_time_series"
        /\ lop'.factor = lop.factor
        /\ lop'.run_id = lop.run_id
        /\ EqualLengths(series))
       => lres' = Ok(<<series.dates, series.returns, series.cums>>)]_vars

\* C9 witness: a two-row series loaded back over an older file of the pair.
C9_Witness ==
    /\ series # None
    /\ lop.op = "load_time_series"
    /\ lop.factor = series.factor /\ lop.run_id = series.run_id
    /\ Len(series.dates) = 2 /\ EqualLengths(series)
    /\ series.dates[1] # series.dates[2]
    /\ lres = Ok(<<series.dates, series.returns, series.cums>>)

\* C10: load_factor_logs for a factor with no summary file returns an empty
\* sequence and no error; load_time_series for a pair with no time-series
\* file fails with NotFound; neither call creates or changes any file.
C10_MissingData ==
    [][/\ (/\ lop'.op = "load_factor_logs"
           /\ ~file_exists(fs, summary_path(lop'.factor)))
          => lres' = Ok(<<>>)
       /\ (/\ lop'.op = "load_time_series"
           /\ ~file_exists(fs, series_path(lop'.factor, lop'.run_id)))
          => lres' = Err("NotFound")
       /\ lop'.op \in {"load_factor_logs", "load_time_series"} => fs' = fs]_vars

\* C10 witness: with some summary file on disk, a load_time_series of a pair
\* that has no file has failed with NotFound.
C10_Witness ==
    /\ calls # <<>>
    /\ lop.op = "load_time_series"
    /\ ~file_exists(fs, series_path(lop.factor, lop.run_id))
    /\ lres = Err("NotFound")

(***************************************************************************)
(* Claims about CoinbaseClient::get_price_volume_for_symbols               *)
(***************************************************************************)
\* The rows the task of symbol i handed back, none if it handed back no frame.
RowsOfTask(i) ==
    IF IsOk(ptres[i]) /\ ptres[i].val # None THEN ptres[i].val.val.rows ELSE <<>>

PriceCallRan == ppc = "done" /\ psymbols # <<>>

\* C11: a symbol with no entry in the translation table contributes no row,
\* causes no request to the exchange and does not fail the call; the rows of
\* every other symbol that succeeded are returned.
C11_UnmappedSymbolSkipped ==
    PriceCallRan =>
        /\ IsOk(pres)
        /\ \A i \in 1..Len(psymbols) :
              psymbols[i] \notin DOMAIN ARTEMIS_TO_COINBASE =>
                  /\ preqs[i] = 0
                  /\ \A k \in 1..Len(pres.val.rows) :
                        pres.val.rows[k].asset # psymbols[i]
        /\ pres.val.rows = Flatten([i \in 1..Len(psymbols) |-> RowsOfTask(i)])

\* C11 witness: a call with an unmapped symbol ahead of a symbol whose
\* candles arrived has returned that symbol's row.
C11_Witness ==
    /\ PriceCallRan
    /\ Len(psymbols) = 2
    /\ psymbols[1] = "nonexistent-token"
    /\ RowsOfTask(2) # <<>>
    /\ IsOk(pres) /\ pres.val.rows = RowsOfTask(2)

\* C12: when no symbol of a non-empty list yields a data row, the call
\* returns success with a zero-row table of columns date, asset, price and
\* 24h_volume.
C12_NoRowsIsEmptyTable ==
    (PriceCallRan /\ \A i \in 1..Len(psymbols) : RowsOfTask(i) = <<>>) =>
        pres = Ok(DataFrame(<<"date", "asset", "price", "24h_volume">>, <<>>))

\* C12 witness: one symbol unmapped, the other panicked or came back without
\* rows after three requests, and the call returned the empty table.
C12_Witness ==
    /\ PriceCallRan
    /\ Len(psymbols) = 2
    /\ psymbols[1] = "nonexistent-token"
    /\ psymbols[2] = "bitcoin" /\ preqs[2] = 3 /\ ptres[2] = Ok(None)
    /\ IsOk(pres) /\ pres.val.rows = <<>>

(***************************************************************************)
(* Claims about the argument checks of both fetchers                       *)
(***************************************************************************)
\* C13: fetch_metrics_parallel with an empty symbol list or an empty metric
\* list, and get_price_volume_for_symbols with an empty symbol list, fail
\* with InvalidInput, and no task is spawned, no permit acquired and no
\* request sent at any point of such a call.
C13_EmptyInputRejected ==
    /\ (mpc # "idle" /\ (symbols = <<>> \/ metrics = <<>>)) =>
          /\ tpc = <<>> /\ sent = <<>>
          /\ permits = 4 /\ waiters = <<>>
          /\ mpc = "done" => mres = Err("InvalidInput")
    /\ (ppc # "idle" /\ psymbols = <<>>) =>
          /\ ptpc = <<>> /\ preqs = <<>>
          /\ ppc = "done" => pres = Err("InvalidInput")

\* C13 witness: a metrics call with symbols but no metric, and a price call
\* with no symbol, have both returned InvalidInput.
C13_Witness ==
    /\ mpc = "done" /\ symbols # <<>> /\ metrics = <<>>
    /\ mres = Err("InvalidInput")
    /\ ppc = "done" /\ psymbols = <<>>
    /\ pres = Err("InvalidInput")

(***************************************************************************)
(* Further claims about CsvLogger                                          *)
(***************************************************************************)
\* C14: save_time_series called with dates, returns and cumulative returns
\* that are not all of one length fails with InvalidInput and leaves no file
\* for the pair that load_time_series would read as a series.
C14_MismatchedLengthsRejected ==
    (lop.op = "save_time_series" /\ ~EqualLengths(series)) =>
        /\ lres = Err("InvalidInput")
        /\ ~IsOk(load_time_series(fs, series.factor, series.run_id))

(***************************************************************************)
(* Further claims about ArtemisClient::fetch_metrics_parallel              *)
(***************************************************************************)
\* The symbols of the requests sent, batch after batch.
SentSymbols == Flatten([b \in 1..Len(sent) |-> Flatten([k \in 1..Len(sent[b]) |-> sent[b][k].symbols])])

\* C15: for a symbol list of length n >= 1 the call sends exactly ceil(n/5)
\* batch requests, one per batch; the batches are consecutive slices of the
\* list in order, each of 1 to 5 symbols, every symbol occurrence is in
\* exactly one batch, and every request carries the full metric list and
\* the same start and end date.
C15_BatchesPartitionSymbols ==
    /\ \A b \in 1..Len(sent) : Len(sent[b]) <= 1
    /\ (CallRan /\ mpc = "done") =>
          /\ Len(sent) = CeilDiv(Len(symbols), 5)
          /\ \A b \in 1..Len(sent) :
                /\ Len(sent[b]) = 1
                /\ Len(sent[b][1].symbols) \in 1..5
                /\ sent[b][1].metrics = metrics
                /\ sent[b][1].start_date = sent[1][1].start_date
                /\ sent[b][1].end_date = sent[1][1].end_date
          /\ SentSymbols = symbols

\* C15 witness: a call with 11 symbols has returned after three requests,
\* the last one for a single symbol.
C15_Witness ==
    /\ mpc = "done"
    /\ Len(symbols) = 11
    /\ Len(sent) = 3
    /\ Len(sent[3]) = 1 /\ sent[3][1].symbols = <<symbols[11]>>

\* C16: merging an empty list of partial tables gives, for the metrics
\* fetcher as for the price fetcher, a zero-row table with that fetcher's
\* column set, and never an error.
C16_EmptyMergeIsEmptyTable ==
    /\ (CallRan /\ SuccessfulFrames(tresult) = <<>>) =>
          mres = Ok(DataFrame(<<"date", "asset", "metric", "value">>, <<>>))
    /\ (PriceCallRan /\ SomeFrames(ptres) = <<>>) =>
          pres = Ok(DataFrame(<<"date", "asset", "price", "24h_volume">>, <<>>))

\* C17: a batch task that holds a permit gives it back on every exit
\* (success, error, panic): the free permits and the requests in flight
\* always add up to 4, and once the call has returned all 4 permits are
\* free and no task waits.
C17_PermitsReleased ==
    /\ permits + Cardinality(InFlight) = 4
    /\ mpc = "done" => (permits = 4 /\ waiters = <<>>)

\* C17 witness: a call whose batches ended one in success, one in an error
\* and one in a panic has returned with 4 free permits.
C17_Witness ==
    /\ mpc = "done"
    /\ permits = 4
    /\ \E a \in 1..Len(tresult), b \in 1..Len(tresult), c \in 1..Len(tresult) :
          /\ IsOk(tresult[a])
          /\ IsErr(tresult[b], "DataFetch")
          /\ tresult[c] = Panicked

(***************************************************************************)
(* Further claims about CoinbaseClient::get_candles                        *)
(***************************************************************************)
\* Window i's attempt sequence has ended and the sleep after it is over.
WindowClosed(i) == i < Len(windows) \/ cpc \in {"loop", "convert", "done"}

\* C18: the first request of window N+1 is sent only after window N's
\* attempt sequence has ended (success, or 3 failed attempts) and the fixed
\* delay after it has elapsed; the delay follows a failed window as it
\* follows a successful one.
C18_WindowsSequential ==
    \A i \in 1..Len(windows) :
        WindowClosed(i) =>
            /\ windows[i].ok \/ windows[i].requests = 3
            /\ windows[i].rested = rate_limit_delay_ms

\* C18 witness: the second window has been requested after a first window
\* that failed three times and was followed by the delay.
C18_Witness ==
    /\ Len(windows) >= 2
    /\ ~windows[1].ok /\ windows[1].requests = 3
    /\ windows[1].rested = 100
    /\ windows[2].ok

\* Candle i of all_candles has a field that does not parse.
Malformed(i) == ~ParseCandle(all_candles[i]).ok

\* Every well-formed candle collected in window w has its row in the
\* returned table.
Returned(w) ==
    \A j \in CandlesOf(w) :
        ~Malformed(j) =>
            /\ IsOk(cres)
            /\ \E k \in 1..Len(cres.val.rows) :
                  cres.val.rows[k] = ParseCandle(all_candles[j]).val

\* C19: a window gets at most 3 requests; when all 3 fail it contributes no
\* candle, every later window of the range is still requested, and the
\* candles of the windows that succeeded are returned.
C19_ExhaustedWindowDropped ==
    /\ \A i \in 1..Len(windows) :
          /\ windows[i].requests <= 3
          /\ ~windows[i].ok => CandlesOf(windows[i]) = {}
    /\ (cpc = "done" /\ start_date <= end_date) =>
          /\ windows[Len(windows)].end = end_date
          /\ \A i \in 1..Len(windows) : windows[i].ok => Returned(windows[i])

\* C20: when one candle of one page has a field that is not a number, only
\* that page's candles are lost: the other pages' candles are in the
\* returned table, and no request was re-sent because of the parse failure.
C20_MalformedCandleLosesOnlyItsPage ==
    (cpc = "done" /\ \E j \in 1..Len(all_candles) : Malformed(j)) =>
        /\ \A i \in 1..Len(windows) :
              (windows[i].ok /\ \A j \in CandlesOf(windows[i]) : ~Malformed(j))
                  => Returned(windows[i])
        /\ \A i \in 1..Len(windows) :
              windows[i].ok => Len(windows[i].delays) = windows[i].requests - 1

(***************************************************************************)
(* Claims about the optional fields and the header of a summary file       *)
(***************************************************************************)
OptionalFields ==
    {"breakpoint", "min_assets", "weighting_method", "cumulative_returns",
     "annualized_return", "years", "sharpe_ratio", "sortino_ratio",
     "long_only_returns", "short_only_returns", "start_date", "end_date"}

\* C21: for every log_results call and every optional field of the record,
\* load_factor_logs reads the field back as absent if it was passed absent
\* and with the passed value if it was passed present.
C21_OptionalFieldsReadBack ==
    \A f \in LogFactors :
        LET loaded == load_factor_logs(fs, f)
            made == CallsOn(calls, f)
        IN  /\ IsOk(loaded)
            /\ Len(loaded.val) = Len(made)
            /\ \A k \in 1..Len(made) :
                  \A field \in OptionalFields :
                      loaded.val[k][field] = made[k].args[field]

\* The rows of the factor's summary file that are header rows.
HeaderRows(content) == {i \in 1..Len(content) : content[i] = SummaryHeader}

\* The records the file held before the concurrent callers started.
EarlierRecords(content) ==
    {i \in 1..Len(content) : content[i] = data_row(ConcFactor, <<"r", "0">>, ArgsFull)}

\* C30: the header row of a factor's summary file is written exactly once
\* and is the file's first line, also when several callers make the first
\* log_results call for the factor concurrently: once all have returned,
\* load_factor_logs returns one record per call, none made from a header
\* row and none keyed by a data row.
C30_HeaderOnceAndFirst ==
    (callers # <<>> /\ \A c \in 1..Len(callers) : callers[c].pc = "done") =>
        LET content == fs[summary_path(ConcFactor)]
            loaded == load_factor_logs(fs, ConcFactor)
        IN  /\ HeaderRows(content) = {1}
            /\ IsOk(loaded)
            /\ Len(loaded.val) = Len(callers) + Cardinality(EarlierRecords(content))
            /\ \A k \in 1..Len(loaded.val) :
                  \/ loaded.val[k].run_id = <<"r", "0">>
                  \/ \E c \in 1..Len(callers) : loaded.val[k].run_id = callers[c].run_id

(***************************************************************************)
(* Claims about the translation table                                      *)
(***************************************************************************)
\* Every answer get_supported_symbols can give lists exactly the strings
\* for which is_supported holds.
ListedIffSupported(m) ==
    \A k \in KeyOrders(m) :
        LET listed == Range(get_supported_symbols(m, k))
        IN  \A s \in MappingStrings : s \in listed <=> is_supported(m, s)

\* The last call on the table returned a value of its return type.
MappingCallReturned ==
    /\ mcall.op = "is_supported" => mret \in BOOLEAN
    /\ mcall.op \in {"artemis_to_coinbase", "get"} => (mret = None \/ IsOk(mret))
    /\ mcall.op = "get_supported_symbols" => Len(mret) >= 0

\* C25: for every string s, is_supported(s) is true exactly when
\* artemis_to_coinbase(s) returns a product id and exactly when s is one of
\* get_supported_symbols(); no call on the table fails, and no sequence of
\* calls, the lookups of the price tasks included, changes the table.
C25_TableConsistentAndFixed ==
    /\ [](\A s \in MappingStrings :
            is_supported(deref(table).val, s)
                <=> IsOk(artemis_to_coinbase(deref(table).val, s)))
    /\ []ListedIffSupported(deref(table).val)
    /\ []MappingCallReturned
    /\ [][deref(table') = deref(table)]_vars

C25_Witness ==
    /\ table # None
    /\ mcall = [op |-> "is_supported", arg |-> "BTC-USD"]
    /\ mret = FALSE

\* C26: get_supported_symbols() returns more than 80 symbols: the table is
\* built from more than 80 distinct symbols.
C26_MoreThanEightySymbols ==
    mcall.op = "get_supported_symbols" => Cardinality(Range(mret)) > 80

(***************************************************************************)
(* Claims about ArtemisClient::list_asset_symbols                          *)
(***************************************************************************)
\* The records of the provider's answer that the call is to return: those
\* with a symbol string that holds no "eq-" and is none of the three
\* denylisted identifiers.
HasEquityMarker(symbol) ==
    \E i \in 1..Len(symbol), j \in 1..Len(symbol) : SubSeq(symbol, i, j) = <<"e", "q", "-">>

Denylist == {<<"u", "s", "d">>, <<"M">>, <<"e", "u", "r", "c">>}

KeptRecords(assets) ==
    {j \in 1..Len(assets) :
        /\ assets[j].symbol # None
        /\ ~HasEquityMarker(assets[j].symbol.val)
        /\ assets[j].symbol.val \notin Denylist}

\* The i-th kept record, in the provider's order.
KeptAt(assets, i) ==
    CHOOSE j \in KeptRecords(assets) :
        Cardinality({k \in KeptRecords(assets) : k <= j}) = i

\* C27: when the provider answers with a readable asset list,
\* list_asset_symbols returns exactly the symbols of the records that carry
\* a symbol string, in the provider's order, without those that contain
\* "eq-" and without "usd", "M" and "eurc"; nothing else is removed, added
\* or reordered.
C27_ListIsFilteredProviderList ==
    (lsres # None /\ lsresp.kind = "body") =>
        /\ IsOk(lsres)
        /\ Len(lsres.val) = Cardinality(KeptRecords(lsresp.assets))
        /\ \A i \in 1..Len(lsres.val) :
              lsres.val[i] = lsresp.assets[KeptAt(lsresp.assets, i)].symbol.val

C27_Witness ==
    /\ lsresp.kind = "body"
    /\ lsresp.assets = <<[symbol |-> Some(<<"x", "e", "q", "-", "y">>)],
                         [symbol |-> Some(<<"u", "s", "d", "c">>)]>>
    /\ lsres = Ok(<<<<"u", "s", "d", "c">>>>)

(***************************************************************************)
(* Claims about the responses made from errors                             *)
(***************************************************************************)
\* The error says that data did not have the expected shape: a candle field
\* that is no number, or a body that is no asset list.
ParseFailure(e) ==
    \/ e.msg \in {"Invalid timestamp", "Invalid price", "Invalid volume",
                  "Failed to parse asset symbols"}
    \/ e.kind = "Json"

\* The provider could not be reached or answered with a failure status.
ProviderFailure(e) == e.kind = "DataFetch" /\ ~ParseFailure(e)

\* C24: the response made from an error has status 400 for InvalidInput, 404
\* for NotFound, 502 for a provider failure and 500 for every other kind of
\* error: a parse failure, CSV, I/O, configuration, date parsing, factor
\* computation and internal errors.
C24_StatusOfEveryErrorKind ==
    reply # None =>
        reply.status =
            IF err.kind = "InvalidInput" THEN 400
            ELSE IF err.kind = "NotFound" THEN 404
            ELSE IF ProviderFailure(err) THEN 502
            ELSE 500

(***************************************************************************)
(* Claims about save_time_series with a concurrent reader                  *)
(***************************************************************************)
\* C23: a load_time_series(f, r) that runs while save_time_series(f, r, s)
\* is under way returns NotFound, or the series saved before, or the whole
\* series s, and never an empty series or a proper prefix of s.
C23_SaveIsAtomicForReaders ==
    (/\ lop.op = "load_time_series"
     /\ lop.factor = series.factor
     /\ lop.run_id = series.run_id) =>
        lres \in {Err("NotFound"),
                  load_time_series(OldSeriesFs(series), series.factor, series.run_id),
                  Ok(<<series.dates, series.returns, series.cums>>)}

(***************************************************************************)
(* Claims about the queries of api/factors.rs and the growth of the logs   *)
(***************************************************************************)
\* C22: get_factor_latest returns the record appended last to the factor's
\* summary file, also when a record appended earlier has a run id that
\* sorts after it; it fails with NotFound when the factor has no record or
\* is not one of AVAILABLE_FACTORS.
C22_LatestIsLastAppended ==
    lop.op = "get_factor_latest" =>
        LET made == CallsOn(calls, lop.factor)
        IN  IF lop.factor \notin Range(AVAILABLE_FACTORS) \/ made = <<>>
            THEN lres = Err("NotFound")
            ELSE lres = Ok(RecordOf(made[Len(made)]))

C22_Witness ==
    /\ lop.op = "get_factor_latest"
    /\ Len(calls) = 2
    /\ calls[1].factor = lop.factor /\ calls[1].run_id = <<"c">>
    /\ calls[2].factor = lop.factor /\ calls[2].run_id = <<"b">>
    /\ IsOk(lres)
    /\ lres.val.run_id = <<"b">>

\* The factor has records and the run of its last record has no
\* time-series file.
LatestRunWithoutSeries(f) ==
    /\ IsOk(load_factor_logs(fs, f))
    /\ load_factor_logs(fs, f).val # <<>>
    /\ ~file_exists(fs, series_path(f, last_log(load_factor_logs(fs, f).val).run_id))

\* C28: log_results and save_time_series being independent writes, in every
\* state their interleavings reach a run that load_factor_logs returns and
\* that has no time-series file makes load_time_series fail with NotFound,
\* and get_factors_time_series then succeeds and leaves the factor out of
\* its result; it neither fails nor returns the series of an older run.
C28_RunWithoutSeriesIsLeftOut ==
    /\ \A f \in ApiFactors :
          LET logs == load_factor_logs(fs, f)
          IN  IsOk(logs) =>
                \A k \in 1..Len(logs.val) :
                    ~file_exists(fs, series_path(f, logs.val[k].run_id)) =>
                        load_time_series(fs, f, logs.val[k].run_id) = Err("NotFound")
    /\ lop.op = "get_factors_time_series" =>
          /\ IsOk(lres)
          /\ \A f \in ApiFactors : LatestRunWithoutSeries(f) => f \notin DOMAIN lres.val

C28_Witness ==
    /\ lop.op = "get_factors_time_series"
    /\ lop.query.factors = None
    /\ LatestRunWithoutSeries(<<"m", "o", "m", "e", "n", "t", "u", "m">>)
    /\ file_exists(fs, series_path(<<"m", "o", "m", "e", "n", "t", "u", "m">>, <<"b">>))
    /\ IsOk(lres)
    /\ DOMAIN lres.val = {<<"m", "o", "m", "e", "n", "t", "u", "m", "_", "v", "2">>}

\* C29: a factor's history only grows: over every call of log_results,
\* save_time_series, load_factor_logs and load_time_series, on any factor
\* and run, what load_factor_logs(f) returned before the call is a prefix
\* of what it returns after it, and a call on another factor leaves what
\* load_factor_logs(f) returns unchanged.
C29_HistoryOnlyGrows ==
    [][\A f \in LogFactors :
          LET before == load_factor_logs(fs, f)
              after == load_factor_logs(fs', f)
          IN  /\ IsOk(before) =>
                    /\ IsOk(after)
                    /\ Len(before.val) <= Len(after.val)
                    /\ SubSeq(after.val, 1, Len(before.val)) = before.val
              /\ lop'.factor # f => after = before]_vars

(***************************************************************************)
(* Further claims about CoinbaseClient::get_price_volume_for_symbols       *)
(***************************************************************************)
\* Row k of the returned table is a candle of the product of input symbol i,
\* whose task handed back rows.
RowOfSymbol(k, i) ==
    /\ pres.val.rows[k].asset = psymbols[i]
    /\ psymbols[i] \in DOMAIN ARTEMIS_TO_COINBASE
    /\ pres.val.rows[k].price = F64(ExchangePrice(ARTEMIS_TO_COINBASE[psymbols[i]]), 0)
    /\ RowsOfTask(i) # <<>>

\* C31: every row of the table get_price_volume_for_symbols returns carries
\* in its asset column the input symbol for whose product id the row's
\* candle was fetched; no row carries a product id, a symbol without a
\* mapping, or a symbol whose fetch failed or brought no candle.
C31_RowsCarryTheirSymbol ==
    (PriceCallRan /\ IsOk(pres)) =>
        \A k \in 1..Len(pres.val.rows) :
            /\ \E i \in 1..Len(psymbols) : RowOfSymbol(k, i)
            /\ \A s \in DOMAIN ARTEMIS_TO_COINBASE :
                  pres.val.rows[k].asset # ARTEMIS_TO_COINBASE[s]

C31_Witness ==
    /\ PriceCallRan
    /\ psymbols = <<"ethereum", "bitcoin">>
    /\ IsOk(pres)
    /\ Len(pres.val.rows) = 2
    /\ RowOfSymbol(1, 1)
    /\ RowOfSymbol(2, 2)

(***************************************************************************)
(* Further claims about the queries of api/factors.rs                      *)
(***************************************************************************)
\* C32: get_factor_logs with limit L on a factor with N appended runs
\* returns the last min(L, N) records of the append sequence, in append
\* order: none for L = 0, all N for L >= N; it fails with NotFound for a
\* factor name that is not one of AVAILABLE_FACTORS.
C32_LastRecordsUpToLimit ==
    lop.op = "get_factor_logs" =>
        LET made == CallsOn(calls, lop.factor)
            n == Min(lop.limit, Len(made))
        IN  IF lop.factor \notin Range(AVAILABLE_FACTORS)
            THEN lres = Err("NotFound")
            ELSE lres = Ok([k \in 1..n |-> RecordOf(made[Len(made) - n + k])])

C32_Witness ==
    /\ lop.op = "get_factor_logs"
    /\ lop.limit = 1
    /\ Len(calls) = 2
    /\ calls[1].factor = lop.factor /\ calls[1].run_id = <<"c">>
    /\ calls[2].factor = lop.factor /\ calls[2].run_id = <<"b">>
    /\ lres = Ok(<<RecordOf(calls[2])>>)

\* The date is within the query's range, an absent end of the range being
\* no limit.
InQueryRange(d, query) ==
    /\ query.start_date # None => ~str_lt(d, query.start_date.val)
    /\ query.end_date # None => ~str_lt(query.end_date.val, d)

\* The cumulative return as the query hands it out.
HandedOut(cum, query) == IF query.normalize_to_100 THEN normalize(cum) ELSE cum

\* C33: for a stored series with ascending dates, get_factors_time_series
\* with a start date, an end date or both returns only rows whose date d
\* satisfies start <= d <= end, an empty series when no stored date is in
\* the range, and its dates, returns and cumulative returns have one length
\* and stay aligned: each returned row is a row of the stored series.
C33_OnlyRowsInRange ==
    lop.op = "get_factors_time_series" =>
        /\ IsOk(lres)
        /\ \A f \in DOMAIN lres.val :
              LET stored == load_time_series(fs, f, last_log(load_factor_logs(fs, f).val).run_id).val
                  entry == lres.val[f]
              IN  /\ Len(entry.returns) = Len(entry.dates)
                  /\ Len(entry.cumulative_returns) = Len(entry.dates)
                  /\ \A i \in 1..Len(entry.dates) :
                        /\ InQueryRange(entry.dates[i], lop.query)
                        /\ \E j \in 1..Len(stored[1]) :
                              /\ stored[1][j] = entry.dates[i]
                              /\ stored[2][j] = entry.returns[i]
                              /\ HandedOut(stored[3][j], lop.query)
                                    = entry.cumulative_returns[i]

\* C36: time-series storage is isolated per (factor, run): for any two
\* distinct pairs (f, r) and (f2, r2) of factor names and run ids, a call
\* save_time_series(f, r, ...) leaves what load_time_series(f2, r2) returns
\* unchanged, and leaves what load_factor_logs returns unchanged for every
\* factor.
C36_SeriesIsolatedPerFactorAndRun ==
    [][lop'.op = "save_time_series" =>
          /\ \A f2 \in SeriesFactors, r2 \in SeriesRunIds :
                <<f2, r2>> # <<lop'.factor, lop'.run_id>> =>
                    load_time_series(fs', f2, r2) = load_time_series(fs, f2, r2)
          /\ \A f \in SeriesFactors \cup LogFactors :
                load_factor_logs(fs', f) = load_factor_logs(fs, f)]_vars

(***************************************************************************)
(* Further claims about CoinbaseClient::get_candles                        *)
(***************************************************************************)
\* The requests sent for the windows w.
RECURSIVE RequestsSent(_)
RequestsSent(w) ==
    IF w = <<>> THEN 0 ELSE w[Len(w)].requests + RequestsSent(SubSeq(w, 1, Len(w) - 1))

\* Each loop iteration has left current_start after the start of its window,
\* and each window starts after the one before it.
WindowStartIncreases ==
    /\ \A i \in 1..(Len(windows) - 1) : windows[i].start < windows[i + 1].start
    /\ (cpc \in {"loop", "convert", "done"} /\ windows # <<>>) =>
          current_start > windows[Len(windows)].start

\* C35: with every sent request completing, get_candles terminates for
\* every date range: the window start strictly increases on each loop
\* iteration, the requests sent are at most 3 times the number of windows,
\* and a range whose start is after its end sends no request and yields the
\* empty table with the three columns date, price, 24h_volume.
C35_GetCandlesTerminates ==
    /\ <>(cpc = "done")
    /\ [](/\ WindowStartIncreases
          /\ RequestsSent(windows) <= 3 * Len(windows)
          /\ start_date > end_date =>
                /\ windows = <<>>
                /\ cpc = "done" => cres = Ok(DataFrame(CandleColumns, <<>>)))

\* C35 witness: a call over three windows has returned after three requests
\* for each of them.
C35_Witness ==
    /\ cpc = "done"
    /\ Len(windows) = 3
    /\ RequestsSent(windows) = 9

(***************************************************************************)
(* Further claims about ArtemisClient::fetch_metrics_parallel              *)
(***************************************************************************)
\* Batch b of the call has acquired a permit and sent its request.
HasSent(b) == b \in 1..Len(sent) /\ sent[b] # <<>>

\* C34: with every sent batch request completing (response, error or
\* timeout), every batch of a fetch_metrics_parallel call eventually
\* acquires a permit and sends its request, and the call eventually
\* returns: no batch waits forever while permits are freed.
C34_EveryBatchSendsAndCallReturns ==
    /\ \A b \in 1..(MaxSymbols \div BatchSize + 1) :
          (b \in 1..Len(batches)) ~> HasSent(b)
    /\ <>(mpc = "done")

\* C34 witness: a call with more batches than permits has returned, every
\* batch having sent its one request, a batch that queued for a permit among
\* them.
C34_Witness ==
    /\ mpc = "done"
    /\ IsOk(mres)
    /\ Len(batches) > SemaphorePermits
    /\ \A b \in 1..Len(batches) : Len(sent[b]) = 1

\* The tasks whose request against the product is in flight.
InFlightOn(product_id) ==
    {i \in 1..Len(ptpc) :
        /\ ptpc[i] = "inflight"
        /\ mapping_get(psymbols[i]) = Some(product_id)}

\* C37: during one get_price_volume_for_symbols call, for every symbol
\* list, a list that names one symbol more than once included, at most one
\* request is in flight against any one product id at any time.
C37_OneRequestPerProduct ==
    \A s \in DOMAIN ARTEMIS_TO_COINBASE :
        Cardinality(InFlightOn(ARTEMIS_TO_COINBASE[s])) <= 1

====
